---- MODULE Spec2Model ----
(***************************************************************************)
(* A model of pyauto's scene stepper (models/scene.py, extras/owl.py) and  *)
(* scenario sequencer (models/scenario.py), of accident detection, the     *)
(* predictor, the intersection oracle and the intersecting-path            *)
(* augmentation (extras/physics), and of four pure functions: the          *)
(* directional predicates (extras/physics), get_occlusions and             *)
(* augment_occlusion (extras/perception) and split_polygon_into_boundaries *)
(* (extras/utils.py), each under a specification of its own.               *)
(*                                                                         *)
(* Units.  Time stamps, durations and time steps are fixed-point numbers   *)
(* in hundredths of a second.  Speeds are in cm/s, positions in 1e-4 m, so *)
(* that speed * delta_t is an exact integer.  Footprints are intervals     *)
(* [lo, hi] on one axis (the example model only moves objects along x).    *)
(*                                                                         *)
(* Objects.  A Python object of a scene (an owlready2 individual) is named *)
(* by <<sid, ns, name>>: the scene (world) it lives in, and its IRI split  *)
(* into namespace and name.  heap maps every live object to its record.    *)
(* Attribute values are 5-tuples <<kind, a, b, s1, s2>>.                   *)
(***************************************************************************)
EXTENDS Integers, Sequences, FiniteSets, TLC

VARIABLES
    heap,           \* object id -> individual record (all worlds)
    scenario,       \* Scenario (a list of Scene records)
    scen_attrs,     \* Scenario._duration / Scenario._max_time
    has_scenery,    \* whether the scenario was built with a Scenery
    next_sid,       \* identity of the next Scene object to be constructed
    pc,             \* position of the caller inside Scenario.simulate
    sim,            \* locals of the running Scenario.simulate call
    ret,            \* outcome of the last call
    calls,          \* number of calls made so far
    st,             \* one Scene.simulate call, observed entity by entity
    cache,          \* functools caches of get_geometry and prediction, and the
                    \* intersects_path_with_cached dictionaries of the objects
    arg             \* arguments of the function under observation

vars == <<heap, scenario, scen_attrs, has_scenery, next_sid, pc, sim, ret, calls, st,
         cache, arg>>

-----------------------------------------------------------------------------
(* Bounds *)

MaxCalls == 2       \* calls made on a Scenario
MaxSteps == 2       \* chained Scene.simulate calls in the stepper specification

-----------------------------------------------------------------------------
(* Values *)

None == <<"none", 0, 0, "", "">>
Lit(n) == <<"lit", n, 0, "", "">>
Str(s) == <<"str", 0, 0, s, "">>
Wkt(lo, hi) == <<"wkt", lo, hi, "", "">>
PointWkt(x) == <<"wkt", x, x, "POINT", "">>
Ref(o) == <<"ref", o[1], 0, o[2], o[3]>>
IsRef(v) == v[1] = "ref"
ObjOf(v) == <<v[2], v[4], v[5]>>

Range(s) == {s[i] : i \in 1..Len(s)}
\* the element of a singleton; Only({e(x) : x \in {v}}) is e with the local
\* variable x assigned the value v once
Only(S) == CHOOSE x \in S : TRUE
Abs(x) == IF x < 0 THEN -x ELSE x

-----------------------------------------------------------------------------
(* The loaded ontology (TBox): classes, properties *)

NamedClass(ns, name) == <<"C", ns, name, "", "">>
Restriction(pns, prop, vns, vname) == <<"R", pns, prop, vns, vname>>

Spatial_Object == NamedClass("physics", "Spatial_Object")
Dynamical_Object == NamedClass("physics", "Dynamical_Object")
Color == NamedClass("physics", "Color")
Geometry == NamedClass("geosparql", "Geometry")
Vehicle == NamedClass("l4_core", "Vehicle")
Pedestrian == NamedClass("l4_core", "Pedestrian")
Driver == NamedClass("l4_core", "Driver")
Passenger_Car == NamedClass("l4_de", "Passenger_Car")
Parking_Vehicle == NamedClass("l4_de", "Parking_Vehicle")
Road == NamedClass("l1_core", "Road")
Thing == NamedClass("owl", "Thing")
\* a class construct that is neither a named class nor a restriction to a class
OneOf == <<"X", "", "OneOf", "", "">>

Classes == {Thing, Spatial_Object, Dynamical_Object, Color, Geometry, Vehicle, Pedestrian,
            Driver, Passenger_Car, Parking_Vehicle, Road}

\* direct superclasses
Parents(c) ==
    CASE c = Dynamical_Object -> {Spatial_Object}
      [] c = Vehicle -> {Dynamical_Object}
      [] c = Pedestrian -> {Dynamical_Object}
      [] c = Passenger_Car -> {Vehicle}
      [] c = Parking_Vehicle -> {Vehicle}
      [] c = Road -> {Spatial_Object}
      [] c \in Classes \ {Thing} -> {Thing}
      [] OTHER -> {}

RECURSIVE Ancestors(_)
Ancestors(c) == {c} \cup UNION {Ancestors(p) : p \in Parents(c)}

\* str(x) of a class, as a sequence of tokens
ClassStr(c) ==
    CASE c = Passenger_Car -> <<"l4_de", ".", "Passenger", "_", "Car">>
      [] c = Spatial_Object -> <<"physics", ".", "Spatial", "_", "Object">>
      [] c = Dynamical_Object -> <<"physics", ".", "Dynamical", "_", "Object">>
      [] c[1] = "C" -> <<c[2], ".", c[3]>>
      [] OTHER -> <<c[2], ".", c[3], ".", "some", "(", c[4], ".", c[5], ")">>

ListProps == {"hasGeometry", "asWKT", "comment", "drives", "in_traffic_model"}
FunctionalProps == {"has_height", "has_speed", "has_yaw", "has_yaw_rate", "has_length", "has_width",
                    "has_velocity_x", "has_velocity_y", "has_velocity_z",
                    "has_acceleration_x", "has_acceleration_y", "has_acceleration_z"}
PropNames == ListProps \cup FunctionalProps

\* str(var) of a property: ontology name, ".", name
PropStr(p) ==
    CASE p = "hasGeometry" -> "geosparql.hasGeometry"
      [] p = "asWKT" -> "geosparql.asWKT"
      [] p = "comment" -> "rdf-schema.comment"
      [] p = "drives" -> "l4_core.drives"
      [] p = "in_traffic_model" -> "l4_core.in_traffic_model"
      [] p = "has_height" -> "physics.has_height"
      [] p = "has_speed" -> "physics.has_speed"
      [] p = "has_yaw" -> "physics.has_yaw"
      [] p = "has_yaw_rate" -> "physics.has_yaw_rate"
      [] p = "has_length" -> "physics.has_length"
      [] p = "has_width" -> "physics.has_width"
      [] p = "has_velocity_x" -> "physics.has_velocity_x"
      [] p = "has_velocity_y" -> "physics.has_velocity_y"
      [] p = "has_velocity_z" -> "physics.has_velocity_z"
      [] p = "has_acceleration_x" -> "physics.has_acceleration_x"
      [] p = "has_acceleration_y" -> "physics.has_acceleration_y"
      [] OTHER -> "physics.has_acceleration_z"

EmptyProps == [p \in PropNames |-> <<>>]

\* An individual: IRI (ns, name), asserted classes, the class its Python type
\* resolves to for construction, attribute values (a functional property
\* holds <<>> for None or a single value).
Individual(ns, name, is_a, p) ==
    [ns |-> ns, name |-> name, is_a |-> is_a, p |-> p]

Iri(o) == <<o[2], o[3]>>
Obj(sid, iri) == <<sid, iri[1], iri[2]>>

IsNamed(c) == c[1] = "C"

\* type(ind), or type(ind).is_a[0] for a FusionClass: the class the copy is constructed from
ConstructionClass(e) ==
    LET named == SelectSeq(e.is_a, IsNamed)
    IN IF named = <<>> THEN Thing ELSE named[1]

\* ind.INDIRECT_is_a
INDIRECT_is_a(e) == UNION {Ancestors(c) : c \in {d \in Range(e.is_a) : IsNamed(d)}}
                    \cup {d \in Range(e.is_a) : ~IsNamed(d)}

IsInstance(e, c) == c \in INDIRECT_is_a(e)

-----------------------------------------------------------------------------
(* Scene construction: Scene.__init__, Scene.set_scenery *)

SCENERY_COMMENT == Str("_auto_scenery")

\* individuals that come with the ontology itself (the colors of physics)
BaseInds(sid) ==
    << Individual("physics", "Red", <<Color>>, EmptyProps) >>

\* the individuals of the Scenery's ABox file as they appear in a world that loads it
SceneryInds(sid) ==
    << Individual("l1_core", "road1", <<Road>>,
                  [EmptyProps EXCEPT !["hasGeometry"] = <<Ref(<<sid, "geosparql", "geometry1">>)>>]),
       Individual("geosparql", "geometry1", <<Geometry>>,
                  [EmptyProps EXCEPT !["asWKT"] = <<Wkt(0, 2000000)>>]) >>

\* set_scenery: every individual of the scenery file gets the scenery comment
MarkScenery(e) ==
    IF SCENERY_COMMENT \in Range(e.p["comment"]) THEN e
    ELSE [e EXCEPT !.p["comment"] = Append(@, SCENERY_COMMENT)]

WorldInds(sid, scenery) ==
    BaseInds(sid) \o
    (IF scenery THEN [i \in 1..Len(SceneryInds(sid)) |-> MarkScenery(SceneryInds(sid)[i])]
     ELSE <<>>)

\* Scene(timestamp=..., scenery=...): a new world with identity sid
NewScene(h, sid, timestamp, scenery, more_extras) ==
    LET es == WorldInds(sid, scenery)
        objs == {<<sid, es[i].ns, es[i].name>> : i \in 1..Len(es)}
        rec(o) == LET i == CHOOSE j \in 1..Len(es) : <<sid, es[j].ns, es[j].name>> = o IN es[i]
    IN [heap |-> [o \in objs |-> rec(o)] @@ h,
        scene |-> [sid |-> sid, timestamp |-> timestamp, scenery |-> scenery,
                   more_extras |-> more_extras,
                   inds |-> [i \in 1..Len(es) |-> <<es[i].ns, es[i].name>>]]]

-----------------------------------------------------------------------------
(* Time steps: str(delta_t) and numpy.round *)

\* "." in str(delta_t): true of a float, false of an int
HasDot(delta_t) == delta_t.float

\* len(str(delta_t).split(".")[1]) for a float with at most two decimals
Decimals(delta_t) == IF delta_t.val % 10 # 0 THEN 2 ELSE 1

\* numpy.round(x, d) of a value in hundredths: round half to even
NumpyRound(x, d) ==
    IF d >= 2 THEN x
    ELSE LET m == x % 10
             base == x - m
         IN IF m < 5 THEN base
            ELSE IF m > 5 THEN base + 10
            ELSE IF (base \div 10) % 2 = 0 THEN base ELSE base + 10

\* Scene.copy, the time stamp of the new scene
CopyTimestamp(timestamp, delta_t) ==
    IF HasDot(delta_t) THEN NumpyRound(timestamp + delta_t.val, Decimals(delta_t))
    ELSE timestamp + delta_t.val

-----------------------------------------------------------------------------
(* Scene.copy *)

MapHas(mapping, iri) == \E i \in 1..Len(mapping) : mapping[i][1] = iri
MapGet(mapping, iri) == mapping[CHOOSE i \in 1..Len(mapping) : mapping[i][1] = iri][2]

\* the class of the new world that a class of an is_a entry is copied to
CopyClass(cls) ==
    IF IsNamed(cls) THEN cls
    ELSE IF NamedClass(cls[2], cls[5]) \in Classes
         THEN Restriction(cls[2], cls[3], cls[2], cls[5])
         ELSE Restriction(cls[2], cls[3], "", "None")

Unsupported(cls) == ~IsNamed(cls) /\ cls[1] # "R"

RECURSIVE CopyIsA(_, _, _)
CopyIsA(new_is_a, is_a, k) ==
    IF k > Len(is_a) THEN new_is_a
    ELSE LET new_cls == CopyClass(is_a[k])
         IN CopyIsA(IF new_cls \in Range(new_is_a) THEN new_is_a ELSE Append(new_is_a, new_cls),
                    is_a, k + 1)

\* Cls(name): owlready2 returns the individual of that IRI if the world has one
CreateIndividual(h, new, cls, name) ==
    LET o == <<new.sid, cls[2], name>>
    IN IF <<cls[2], name>> \in Range(new.inds)
       THEN [heap |-> IF IsInstance(h[o], cls) THEN h
                      ELSE [h EXCEPT ![o].is_a = Append(@, cls)],
             new |-> new, obj |-> o]
       ELSE [heap |-> (o :> Individual(cls[2], name, <<cls>>, EmptyProps)) @@ h,
             new |-> [new EXCEPT !.inds = Append(@, <<cls[2], name>>)], obj |-> o]

\* lines 276-306 without the test of line 278, the new individual being entered
\* into the new world without a look at what the world holds
CopyIndividual_Unchecked(acc, src, iri) ==
    LET ind == acc.heap[Obj(src.sid, iri)]
        cls == ConstructionClass(ind)
        o == <<acc.new.sid, cls[2], ind.name>>
    IN IF \E k \in 1..Len(ind.is_a) : Unsupported(ind.is_a[k])
       THEN [acc EXCEPT !.raised = TRUE]
       ELSE [acc EXCEPT !.heap = (o :> Individual(cls[2], ind.name,
                                                  CopyIsA(<<cls>>, ind.is_a, 1), EmptyProps)) @@ @,
                        !.new.inds = Append(@, <<cls[2], ind.name>>),
                        !.mapping = Append(@, <<iri, <<cls[2], ind.name>>>>)]

\* lines 276-306: one iteration of "for ind in self.individuals()"
CopyIndividual(acc, src, iri) ==
    LET ind == acc.heap[Obj(src.sid, iri)]
    IN IF iri \in Range(acc.new.inds) THEN acc
       ELSE IF \E k \in 1..Len(ind.is_a) : Unsupported(ind.is_a[k])
            THEN [acc EXCEPT !.raised = TRUE]
       ELSE LET c == CreateIndividual(acc.heap, acc.new, ConstructionClass(ind), ind.name)
                h2 == [c.heap EXCEPT ![c.obj].is_a = CopyIsA(@, ind.is_a, 1)]
            IN [acc EXCEPT !.heap = h2, !.new = c.new,
                           !.mapping = Append(@, <<iri, Iri(c.obj)>>)]

RECURSIVE CopyIndividuals(_, _, _)
CopyIndividuals(acc, src, k) ==
    IF k > Len(src.inds) \/ acc.raised THEN acc
    ELSE CopyIndividuals(CopyIndividual(acc, src, src.inds[k]), src, k + 1)

\* "if val in mapping.keys(): val = mapping[val]"
Translate(mapping, src, new, val) ==
    IF IsRef(val) /\ val[2] = src.sid /\ MapHas(mapping, Iri(ObjOf(val)))
    THEN Ref(Obj(new.sid, MapGet(mapping, Iri(ObjOf(val)))))
    ELSE val

\* lines 315-321: the values of one property of mapping[ind] after the values
\* vals of ind have been copied to it
RECURSIVE CopyValues(_, _, _, _)
CopyValues(cur, var, vals, k) ==
    IF k > Len(vals) THEN cur
    ELSE CopyValues(IF var \in FunctionalProps THEN <<vals[k]>>
                    ELSE IF vals[k] \notin Range(cur) THEN Append(cur, vals[k])
                    ELSE cur,
                    var, vals, k + 1)

TranslateAll(mapping, src, new, vals) ==
    [i \in 1..Len(vals) |-> Translate(mapping, src, new, vals[i])]

\* lines 310-321: all kept properties of one individual ("for var in ind.get_properties()")
CopyRelations(h, mapping, src, new, iri, to_keep) ==
    LET ind == Obj(src.sid, iri)
        target == Obj(new.sid, MapGet(mapping, iri))
    IN [h EXCEPT ![target].p =
          [var \in PropNames |->
             IF h[ind].p[var] # <<>> /\ PropStr(var) \in to_keep
             THEN CopyValues(h[target].p[var], var,
                             TranslateAll(mapping, src, new, h[ind].p[var]), 1)
             ELSE h[target].p[var]]]

\* line 309: "for ind in mapping.keys()"
RECURSIVE CopyAllRelations(_, _, _, _, _, _)
CopyAllRelations(h, mapping, src, new, to_keep, k) ==
    IF k > Len(mapping) THEN h
    ELSE CopyAllRelations(CopyRelations(h, mapping, src, new, mapping[k][1], to_keep),
                          mapping, src, new, to_keep, k + 1)

\* Scene.copy(delta_t, to_keep): the new scene has identity sid
copy(h, src, sid, delta_t, to_keep) ==
    LET n == NewScene(h, sid, CopyTimestamp(src.timestamp, delta_t), src.scenery,
                      src.more_extras)
        c == CopyIndividuals([heap |-> n.heap, new |-> n.scene, mapping |-> <<>>,
                              raised |-> FALSE], src, 1)
    IN IF c.raised THEN [heap |-> h, new |-> n.scene, mapping |-> <<>>, raised |-> TRUE]
       ELSE [heap |-> CopyAllRelations(c.heap, c.mapping, src, c.new, to_keep, 1),
             new |-> c.new, mapping |-> c.mapping, raised |-> FALSE]

-----------------------------------------------------------------------------
(* Per-entity update rules *)

\* extras/owl.py simulate, lines 20-29: the values of one attribute of
\* mapping[thing] after the values vals of thing have been copied to it
RECURSIVE SimulateValues(_, _, _, _)
SimulateValues(cur, var, vals, k) ==
    IF k > Len(vals) THEN cur
    ELSE SimulateValues(IF var \in FunctionalProps THEN <<vals[k]>> ELSE Append(cur, vals[k]),
                        var, vals, k + 1)

\* the generic rule with thing in the place of mapping[thing] as the object written to
simulate_InPlace(h, mapping, src, new, thing) ==
    LET target == Obj(src.sid, thing)
        other == Obj(new.sid, MapGet(mapping, thing))
    IN [h EXCEPT ![target].p =
          [var \in PropNames |->
             IF h[other].p[var] = <<>>
             THEN SimulateValues(h[target].p[var], var,
                                 TranslateAll(mapping, src, new, h[Obj(src.sid, thing)].p[var]), 1)
             ELSE h[target].p[var]]]

\* extras/owl.py simulate: the generic rule, "keeps everything as is"
simulate(h, mapping, src, new, thing) ==
    LET target == Obj(new.sid, MapGet(mapping, thing))
    IN [h EXCEPT ![target].p =
          [var \in PropNames |->
             IF h[target].p[var] = <<>>
             THEN SimulateValues(h[target].p[var], var,
                                 TranslateAll(mapping, src, new, h[Obj(src.sid, thing)].p[var]), 1)
             ELSE h[target].p[var]]]

\* Spatial_Object.has_geometry
has_geometry(h, o) ==
    /\ Len(h[o].p["hasGeometry"]) > 0
    /\ LET g == ObjOf(h[o].p["hasGeometry"][1])
       IN /\ Len(h[g].p["asWKT"]) > 0
          /\ h[g].p["asWKT"][1] # Str("POLYGON EMPTY")

\* Spatial_Object.get_geometry (only used where has_geometry holds)
get_geometry(h, o) == h[ObjOf(h[o].p["hasGeometry"][1])].p["asWKT"][1]

\* Dynamical_Object.get_speed; <<>> is None.  The norm of the velocity vector
\* is exact here because only its first component is ever non-zero.
get_speed(h, o) ==
    IF h[o].p["has_speed"] # <<>> THEN h[o].p["has_speed"]
    ELSE LET v == h[o].p["has_velocity_x"] \o h[o].p["has_velocity_y"] \o h[o].p["has_velocity_z"]
         IN IF Len(v) > 1 THEN <<Lit(v[1][2])>> ELSE <<>>

\* examples/simulation_model.py Passenger_Car.simulate
Passenger_Car_simulate(h, mapping, src, new, thing, delta_t) ==
    LET self == Obj(src.sid, thing)
        new_self == Obj(new.sid, MapGet(mapping, thing))
        acceleration_x == -2
        speed == get_speed(h, self)
    IN IF speed = <<>> \/ ~has_geometry(h, self) \/ h[new_self].p["hasGeometry"] = <<>>
       THEN [heap |-> h, raised |-> TRUE]
       ELSE LET speed_x == speed[1][2] + acceleration_x * delta_t.val
                geo == get_geometry(h, self)
                new_geo == Wkt(geo[2] + speed_x * delta_t.val, geo[3] + speed_x * delta_t.val)
                g == ObjOf(h[new_self].p["hasGeometry"][1])
                h2 == [h EXCEPT ![new_self].p["has_acceleration_x"] = <<Lit(acceleration_x)>>,
                                ![new_self].p["has_acceleration_y"] = <<Lit(0)>>,
                                ![new_self].p["has_acceleration_z"] = <<Lit(0)>>,
                                ![new_self].p["has_velocity_x"] = <<Lit(speed_x)>>,
                                ![new_self].p["has_velocity_y"] = <<Lit(0)>>,
                                ![new_self].p["has_velocity_z"] = <<Lit(0)>>,
                                ![new_self].p["has_yaw"] = h[self].p["has_yaw"]]
            IN [heap |-> [h2 EXCEPT ![g].p["asWKT"] = <<new_geo>>], raised |-> FALSE]

\* ind.simulate(mapping, delta_t): the rule of the most specific class
IndSimulate(h, mapping, src, new, thing, delta_t, more_extras) ==
    IF more_extras /\ IsInstance(h[Obj(src.sid, thing)], Passenger_Car)
    THEN Passenger_Car_simulate(h, mapping, src, new, thing, delta_t)
    ELSE [heap |-> simulate(h, mapping, src, new, thing), raised |-> FALSE]

-----------------------------------------------------------------------------
(* Scene.simulate *)

\* "prio in str(x)"
IsSubstr(prio, str) ==
    \E i \in 0..(Len(str) - Len(prio)) : SubSeq(str, i + 1, i + Len(prio)) = prio

\* hasattr(a, prio): owlready2 answers every property name of the world
HasAttr(a, prio) == Len(prio) = 1 /\ prio[1] \in PropNames \cup {"simulate", "is_a", "name"}

PrioMatches(a, prio) ==
    \/ \E x \in INDIRECT_is_a(a) : IsSubstr(prio, ClassStr(x))
    \/ HasAttr(a, prio)

\* prio_key without its loop over prioritize
prio_key_HashOnly(h, src, prioritize, hash, iri) == Abs(hash[iri] + Len(prioritize))

\* prio_key, lines 343-347
prio_key(h, src, prioritize, hash, iri) ==
    LET a == h[Obj(src.sid, iri)]
        hits == {i \in 1..Len(prioritize) : PrioMatches(a, prioritize[i])}
    IN IF hits # {} THEN (CHOOSE i \in hits : \A j \in hits : i <= j) - 1
       ELSE Abs(hash[iri] + Len(prioritize))

\* lines 342-350; prioritize = <<"None">> stands for prioritize=None
SortKey(h, src, prioritize, hash, iri) ==
    IF prioritize # <<<<"None">>>> THEN prio_key(h, src, prioritize, hash, iri)
    ELSE hash[iri]

\* sorted(mapping.keys(), key=key): a stable sort
SortedInds(h, src, mapping, prioritize, hash) ==
    LET n == Len(mapping)
        key(i) == SortKey(h, src, prioritize, hash, mapping[i][1])
        rank(i) == Cardinality({j \in 1..n : key(j) < key(i) \/ (key(j) = key(i) /\ j < i)}) + 1
    IN [r \in 1..n |-> mapping[CHOOSE i \in 1..n : rank(i) = r][1]]

\* the main simulation loop over individuals, lines 354-356
RECURSIVE SimulateLoop(_, _, _, _, _, _, _, _)
SimulateLoop(h, mapping, src, new, inds, delta_t, more_extras, k) ==
    IF k > Len(inds) THEN [heap |-> h, raised |-> FALSE]
    ELSE Only({IF r.raised THEN r
               ELSE SimulateLoop(r.heap, mapping, src, new, inds, delta_t, more_extras, k + 1) :
               r \in {IndSimulate(h, mapping, src, new, inds[k], delta_t, more_extras)}})

\* the preserve set of Scene.simulate, lines 337-339
KeepSet(to_keep) ==
    {PropStr("hasGeometry"), PropStr("asWKT"), PropStr("has_height"), PropStr("comment")}
    \cup to_keep

\* Scene.simulate(delta_t, to_keep, prioritize)
SceneSimulate(h, src, sid, delta_t, to_keep, prioritize, hash) ==
    Only({IF c.raised THEN [heap |-> h, new |-> c.new, raised |-> TRUE]
          ELSE Only({[heap |-> r.heap, new |-> c.new, raised |-> r.raised] :
                     r \in {SimulateLoop(c.heap, c.mapping, src, c.new,
                                         SortedInds(c.heap, src, c.mapping, prioritize, hash),
                                         delta_t, src.more_extras, 1)}}) :
          c \in {copy(h, src, sid, delta_t, KeepSet(to_keep))}})

-----------------------------------------------------------------------------
(* Accident detection *)

\* Python truth value of has_height
Truthy(v) == v # <<>> /\ v[1] # Lit(0)

Intersects(w1, w2) == w1[2] <= w2[3] /\ w2[2] <= w1[3]

\* Spatial_Object.has_accident_with, lines 343-344: the driving relation
NotDriving(h, self, other) ==
    /\ Ref(other) \notin Range(h[self].p["drives"])
    /\ Ref(self) \notin Range(h[other].p["drives"])

\* Spatial_Object.has_accident_with
has_accident_with(h, self, other) ==
    /\ Truthy(h[self].p["has_height"]) /\ Truthy(h[other].p["has_height"])
    /\ has_geometry(h, self) /\ has_geometry(h, other)
    /\ Intersects(get_geometry(h, other), get_geometry(h, self))
    /\ NotDriving(h, self, other)

\* Scene.has_accident
has_accident(h, scene) ==
    LET objs == SelectSeq([i \in 1..Len(scene.inds) |-> Obj(scene.sid, scene.inds[i])],
                          LAMBDA o : IsInstance(h[o], Spatial_Object))
    IN \E i \in 1..Len(objs) : \E j \in 1..(i - 1) : has_accident_with(h, objs[i], objs[j])

-----------------------------------------------------------------------------
(* Populating a scene, after what examples/simulation.py does to sc[0]: a
   passenger car with a speed and a pedestrian, both with a footprint and a
   height *)

AddIndividual(w, e) ==
    [heap |-> (<<w.scene.sid, e.ns, e.name>> :> e) @@ w.heap,
     scene |-> [w.scene EXCEPT !.inds = Append(@, <<e.ns, e.name>>)]]

\* ego = l4_de.Passenger_Car("ego"); ego.set_geometry(...); ego.set_velocity(v, 0)
\* ped = l4_co.Pedestrian("ped"); ped.set_geometry(...); ped.has_height = ...
Populate(w, v, ped_lo) ==
    LET sid == w.scene.sid
        g1 == Individual("geosparql", "geometry2", <<Geometry>>,
                         [EmptyProps EXCEPT !["asWKT"] = <<Wkt(24500, 75500)>>])
        ego == Individual("l4_de", "ego", <<Passenger_Car>>,
                          [EmptyProps EXCEPT !["hasGeometry"] = <<Ref(<<sid, "geosparql", "geometry2">>)>>,
                                             !["has_length"] = <<Lit(51000)>>,
                                             !["has_width"] = <<Lit(22000)>>,
                                             !["has_height"] = <<Lit(2)>>,
                                             !["has_yaw"] = <<Lit(0)>>,
                                             !["has_velocity_x"] = <<Lit(v)>>,
                                             !["has_velocity_y"] = <<Lit(0)>>,
                                             !["has_velocity_z"] = <<Lit(0)>>])
        g2 == Individual("geosparql", "geometry3", <<Geometry>>,
                         [EmptyProps EXCEPT !["asWKT"] = <<Wkt(ped_lo, ped_lo + 6000)>>])
        ped == Individual("l4_core", "ped", <<Pedestrian>>,
                          [EmptyProps EXCEPT !["hasGeometry"] = <<Ref(<<sid, "geosparql", "geometry3">>)>>,
                                             !["has_length"] = <<Lit(6000)>>,
                                             !["has_width"] = <<Lit(3000)>>,
                                             !["has_height"] = <<Lit(2)>>,
                                             !["has_yaw"] = <<Lit(90)>>])
    IN AddIndividual(AddIndividual(AddIndividual(AddIndividual(w, g1), ego), g2), ped)

\* car2 = l4_de.Passenger_Car("car2"); car2.set_geometry(...): a parked car, far
\* from the others, whose velocity was never set
WithParked(w) ==
    LET sid == w.scene.sid
        g == Individual("geosparql", "geometry5", <<Geometry>>,
                        [EmptyProps EXCEPT !["asWKT"] = <<Wkt(2000000, 2051000)>>])
        car2 == Individual("l4_de", "car2", <<Passenger_Car>>,
                           [EmptyProps EXCEPT !["hasGeometry"] = <<Ref(<<sid, "geosparql", "geometry5">>)>>,
                                              !["has_height"] = <<Lit(2)>>])
    IN AddIndividual(AddIndividual(w, g), car2)

-----------------------------------------------------------------------------
(* Scenario *)

Last(s) == s[Len(s)]

\* list.insert(position, x)
ListInsert(s, position, x) ==
    LET p0 == IF position < 0 THEN position + Len(s) ELSE position
        p == IF p0 < 0 THEN 0 ELSE IF p0 > Len(s) THEN Len(s) ELSE p0
    IN SubSeq(s, 1, p) \o <<x>> \o SubSeq(s, p + 1, Len(s))

\* Scenario.add_scene: the list and the attributes it sets
add_scene(s, new_scene, position) ==
    LET pos == IF position = -1 THEN Len(s) ELSE position
        s2 == ListInsert(s, pos, new_scene)
    IN [scenario |-> s2,
        attrs |-> [set |-> TRUE, duration |-> Last(s2).timestamp - s2[1].timestamp,
                   max_time |-> Last(s2).timestamp]]

Timestamps == {0, 200}
Positions == {-1, 0}

\* Scenario.new_scene(position, timestamp); timestamp = -1 stands for None
new_scene(position, timestamp, scenery) ==
    /\ pc = "idle"
    /\ calls < MaxCalls
    /\ LET ts == IF timestamp = -1
                 THEN (IF position >= 0 THEN position ELSE Len(scenario)) * 100
                 ELSE timestamp
           w == NewScene(heap, next_sid, ts, scenery, FALSE)
           a == add_scene(scenario, w.scene, position)
       IN /\ heap' = w.heap
          /\ scenario' = a.scenario
          /\ scen_attrs' = a.attrs
    /\ next_sid' = next_sid + 1
    /\ ret' = [kind |-> "new_scene", value |-> FALSE]
    /\ calls' = calls + 1
    /\ UNCHANGED <<has_scenery, pc, sim, st, cache, arg>>

\* Scenario.add_scene(new_scene, position) with a scene the caller has built and
\* populated in the manner of examples/simulation.py
AddScene(position, timestamp) ==
    /\ pc = "idle"
    /\ calls < MaxCalls
    /\ LET w == Populate(NewScene(heap, next_sid, timestamp, FALSE, TRUE), 300, 76000)
           a == add_scene(scenario, w.scene, position)
       IN /\ heap' = w.heap
          /\ scenario' = a.scenario
          /\ scen_attrs' = a.attrs
    /\ next_sid' = next_sid + 1
    /\ ret' = [kind |-> "add_scene", value |-> FALSE]
    /\ calls' = calls + 1
    /\ UNCHANGED <<has_scenery, pc, sim, st, cache, arg>>

\* int(duration / delta_t): truncation towards zero of the exact quotient
IntDiv(a, b) ==
    IF (a >= 0 /\ b > 0) \/ (a <= 0 /\ b < 0) THEN Abs(a) \div Abs(b)
    ELSE -(Abs(a) \div Abs(b))

IntSec(val) == [val |-> val, float |-> FALSE]
FloatSec(val) == [val |-> val, float |-> TRUE]
NoPrio == <<<<"None">>>>

\* the arguments of the calls of Scenario.simulate that are made
Arguments(duration, delta_t, to_keep, prioritize, stop_at_accidents) ==
    [duration |-> duration, delta_t |-> delta_t, to_keep |-> to_keep,
     prioritize |-> prioritize, stop_at_accidents |-> stop_at_accidents]
SimulateArguments ==
    {Arguments(250, IntSec(100), {}, NoPrio, TRUE),
     Arguments(250, IntSec(100), {}, NoPrio, FALSE),
     Arguments(250, FloatSec(100), {"l4_core.in_traffic_model"}, << <<"Vehicle">> >>, FALSE),
     Arguments(150, FloatSec(50), {}, NoPrio, TRUE),
     Arguments(150, FloatSec(50), {}, NoPrio, FALSE),
     Arguments(50, IntSec(100), {}, NoPrio, FALSE),
     Arguments(0, IntSec(100), {}, NoPrio, TRUE),
     Arguments(-100, IntSec(100), {}, NoPrio, FALSE),
     Arguments(0, IntSec(0), {}, NoPrio, TRUE),
     Arguments(-100, IntSec(-100), {}, NoPrio, FALSE),
     Arguments(100, IntSec(0), {}, NoPrio, TRUE),
     Arguments(100, IntSec(-100), {}, NoPrio, FALSE)}

NoRet == [kind |-> "none", value |-> FALSE]

\* the test of line 293 without its first conjunct
EntersLoop_AnyLength(len, duration) == duration > 0

\* line 293: "if len(self) > 0 and duration > 0"
EntersLoop(len, duration) == len > 0 /\ duration > 0

\* Scenario.simulate, lines 290-299 and 318-322: entry, up to the loop
SimulateCall(duration, delta_t, to_keep, prioritize, stop_at_accidents) ==
    /\ pc = "idle"
    /\ calls < MaxCalls
    /\ calls' = calls + 1
    /\ LET enters == EntersLoop(Len(scenario), duration)
       IN /\ sim' = [duration |-> duration, delta_t |-> delta_t, to_keep |-> to_keep,
                     prioritize |-> prioritize, stop_at_accidents |-> stop_at_accidents,
                     accident_happened |-> FALSE,
                     start_t |-> IF Len(scenario) > 0 THEN Last(scenario).timestamp ELSE 0,
                     n |-> IF enters /\ Len(scenario) > 0 /\ delta_t.val # 0
                           THEN IntDiv(duration, delta_t.val) ELSE 0,
                     i |-> 0, len0 |-> Len(scenario)]
          /\ IF enters
             THEN IF Len(scenario) = 0
                  THEN pc' = "idle" /\ ret' = [kind |-> "IndexError", value |-> FALSE]
                  ELSE IF delta_t.val = 0
                  THEN pc' = "idle" /\ ret' = [kind |-> "ZeroDivisionError", value |-> FALSE]
                  ELSE IF IntDiv(duration, delta_t.val) < 0
                  THEN pc' = "idle" /\ ret' = [kind |-> "ValueError", value |-> FALSE]
                  ELSE pc' = "loop" /\ ret' = NoRet
             ELSE pc' = "idle" /\ ret' = [kind |-> "return", value |-> FALSE]
    /\ UNCHANGED <<heap, scenario, scen_attrs, has_scenery, next_sid, st, cache, arg>>

\* hash() of the individuals of a scene: allocation order, or its reverse
HashOf(scene, up) ==
    [iri \in Range(scene.inds) |->
        LET i == CHOOSE j \in 1..Len(scene.inds) : scene.inds[j] = iri
        IN IF up THEN i ELSE Len(scene.inds) + 1 - i]

\* line 307 with "=" in the place of "|="
Accumulate_Assign(accident_happened, accident) == accident

\* line 307: "accident_happened |= new_scene.has_accident()"
Accumulate(accident_happened, accident) == accident_happened \/ accident

\* line 308 with the break lost
Breaks_Never(stop_at_accidents, accident_happened) == FALSE

\* line 308: "if stop_at_accidents and accident_happened: break"
Breaks(stop_at_accidents, accident_happened) == stop_at_accidents /\ accident_happened

\* lines 305-306 with the scene added whether or not its step raised
StepAndAdd_Always(s, attrs, r) == add_scene(s, r.new, -1)

\* lines 305-306: new_scene = self[-1].simulate(...); self.add_scene(new_scene).
\* An exception of line 305 leaves the method before line 306.
StepAndAdd(s, attrs, r) ==
    IF r.raised THEN [scenario |-> s, attrs |-> attrs] ELSE add_scene(s, r.new, -1)

\* Scenario.simulate, lines 301-309: one iteration of the loop
SimulateIteration ==
    /\ pc = "loop"
    /\ sim.i < sim.n
    /\ \E up \in BOOLEAN :
         \E r \in {SceneSimulate(heap, Last(scenario), next_sid, sim.delta_t, sim.to_keep,
                                 sim.prioritize, HashOf(Last(scenario), up))} :
            IF r.raised
            THEN \E a \in {StepAndAdd(scenario, scen_attrs, r)} :
                    /\ pc' = "idle"
                    /\ ret' = [kind |-> "raised", value |-> FALSE]
                    /\ scenario' = a.scenario
                    /\ scen_attrs' = a.attrs
                    /\ UNCHANGED <<heap, next_sid, sim>>
            ELSE \E a \in {StepAndAdd(scenario, scen_attrs, r)},
                    acc \in {Accumulate(sim.accident_happened, has_accident(r.heap, r.new))} :
                    /\ heap' = r.heap
                    /\ scenario' = a.scenario
                    /\ scen_attrs' = a.attrs
                    /\ next_sid' = next_sid + 1
                    /\ sim' = [sim EXCEPT !.accident_happened = acc, !.i = @ + 1]
                    /\ pc' = IF Breaks(sim.stop_at_accidents, acc) THEN "break" ELSE "loop"
                    /\ ret' = ret
    /\ UNCHANGED <<has_scenery, calls, st, cache, arg>>

\* Scenario.simulate, line 322: return accident_happened
SimulateReturn ==
    /\ \/ pc = "break"
       \/ pc = "loop" /\ sim.i >= sim.n
    /\ pc' = "idle"
    /\ ret' = [kind |-> "return", value |-> sim.accident_happened]
    /\ UNCHANGED <<heap, scenario, scen_attrs, has_scenery, next_sid, sim, calls, st, cache, arg>>

NoSim == [duration |-> 0, delta_t |-> [val |-> 100, float |-> FALSE], to_keep |-> {},
          prioritize |-> NoPrio, stop_at_accidents |-> TRUE, accident_happened |-> FALSE,
          start_t |-> 0, n |-> 0, i |-> 0, len0 |-> 0]

NoStep == [pc |-> "off"]

EmptyHeap == [o \in {} |-> 0]

\* no cache is consulted and no argument is held while a scenario is stepped:
\* there every get_geometry call on an object comes after its last update
NoCache == [geo |-> EmptyHeap, pred |-> EmptyHeap, ipw |-> EmptyHeap]
NoArg == [kind |-> "none"]

\* the populated start scenes: speed of the ego vehicle and
\* lower end of the pedestrian's footprint
Variants == {[v |-> 300, ped_lo |-> 76000, ts |-> 0, parked |-> FALSE],
             [v |-> 600, ped_lo |-> 120000, ts |-> 0, parked |-> FALSE],
             [v |-> 300, ped_lo |-> 500000, ts |-> 0, parked |-> FALSE],
             [v |-> 300, ped_lo |-> 500000, ts |-> 25, parked |-> FALSE],
             [v |-> 300, ped_lo |-> 500000, ts |-> 0, parked |-> TRUE]}

\* Scenario(scene_number=0), or Scenario(scene_number=1, scenery=...,
\* more_extras=["simulation_model"]) followed by the population of its scene
Init ==
    /\ \/ /\ has_scenery = FALSE
          /\ heap = EmptyHeap
          /\ scenario = <<>>
          /\ scen_attrs = [set |-> FALSE, duration |-> 0, max_time |-> 0]
          /\ next_sid = 0
       \/ /\ has_scenery = TRUE
          /\ \E x \in Variants :
               LET w0 == Populate(NewScene(EmptyHeap, 0, x.ts, TRUE, TRUE), x.v, x.ped_lo)
                   w == IF x.parked THEN WithParked(w0) ELSE w0
               IN /\ heap = w.heap
                  /\ scenario = <<w.scene>>
                  /\ scen_attrs = [set |-> TRUE, duration |-> 0, max_time |-> x.ts]
                  /\ next_sid = 1
    /\ pc = "idle"
    /\ sim = NoSim
    /\ ret = NoRet
    /\ calls = 0
    /\ st = NoStep
    /\ cache = NoCache
    /\ arg = NoArg

Next ==
    \/ \E position \in Positions, timestamp \in Timestamps \cup {-1} :
          new_scene(position, timestamp, has_scenery)
    \/ \E position \in Positions, timestamp \in Timestamps :
          AddScene(position, timestamp)
    \/ \E a \in SimulateArguments :
          SimulateCall(a.duration, a.delta_t, a.to_keep, a.prioritize, a.stop_at_accidents)
    \/ SimulateIteration
    \/ SimulateReturn

Spec == Init /\ [][Next]_vars

-----------------------------------------------------------------------------
(* The scene stepper on its own: one Scene.simulate call after the other,   *)
(* observed entity by entity                                                *)

\* a driver of the ego vehicle; the ego vehicle is in the traffic model of the
\* scenery's road when there is a scenery
WithDriver(w) ==
    LET sid == w.scene.sid
        ego == <<sid, "l4_de", "ego">>
        drv == Individual("l4_core", "drv",
                          <<Driver, Restriction("l4_core", "drives", "l4_core", "Vehicle")>>,
                          [EmptyProps EXCEPT !["drives"] = <<Ref(ego)>>])
        w2 == AddIndividual(w, drv)
    IN IF w.scene.scenery
       THEN [w2 EXCEPT !.heap[ego].p["in_traffic_model"] = <<Ref(<<sid, "l1_core", "road1">>)>>]
       ELSE w2

\* a second pedestrian, named as the first one, in the namespace of an ABox
WithABox(w) ==
    LET sid == w.scene.sid
        g == Individual("abox", "geometry4", <<Geometry>>,
                        [EmptyProps EXCEPT !["asWKT"] = <<Wkt(900000, 906000)>>])
        ped == Individual("abox", "ped", <<Pedestrian>>,
                          [EmptyProps EXCEPT !["hasGeometry"] = <<Ref(<<sid, "abox", "geometry4">>)>>,
                                             !["has_height"] = <<Lit(1)>>])
    IN AddIndividual(AddIndividual(w, g), ped)

\* a driver whose class is restricted by a property of one ontology to a class of another
WithRestriction(w) ==
    AddIndividual(w, Individual("l4_core", "drv",
                                <<Driver, Restriction("l4_core", "drives", "l4_de", "Passenger_Car")>>,
                                EmptyProps))

\* an individual one of whose is_a entries is neither a class nor a restriction
WithOneOf(w) ==
    AddIndividual(w, Individual("l4_core", "it", <<Thing, OneOf>>, EmptyProps))

StepVariants == {"plain", "driver", "abox", "restriction", "oneof", "parked"}

StepSource(variant, scenery, more_extras) ==
    LET w == Populate(NewScene(EmptyHeap, 0, 0, scenery, more_extras), 300, 76000)
    IN CASE variant = "driver" -> WithDriver(w)
         [] variant = "abox" -> WithABox(w)
         [] variant = "restriction" -> WithRestriction(w)
         [] variant = "oneof" -> WithOneOf(w)
         [] variant = "parked" -> WithParked(w)
         [] OTHER -> w

StepDeltaTs == {IntSec(100), FloatSec(50), IntSec(0), FloatSec(0)}
StepTimestamps == {0, 25}    \* of the scene stepped first, in hundredths of a second
StepToKeeps == {{}, {"l4_core.in_traffic_model"}}
StepPrioritizes == {NoPrio, << <<"Vehicle">> >>, << <<"Driver">>, <<"Passenger", "_", "Car">> >>}

InitStep ==
    /\ has_scenery \in BOOLEAN
    /\ \E variant \in StepVariants, more_extras \in BOOLEAN, delta_t \in StepDeltaTs,
          to_keep \in StepToKeeps, prioritize \in StepPrioritizes, ts \in StepTimestamps :
         LET w == StepSource(variant, has_scenery, more_extras)
             scene == [w.scene EXCEPT !.timestamp = ts]
         IN /\ heap = w.heap
            /\ st = [pc |-> "start", src |-> scene, new |-> scene, mapping |-> <<>>,
                     inds |-> <<>>, k |-> 0, delta_t |-> delta_t, to_keep |-> to_keep,
                     prioritize |-> prioritize, steps |-> 1, before |-> w.heap,
                     before_scene |-> scene]
    /\ scenario = <<>>
    /\ scen_attrs = [set |-> FALSE, duration |-> 0, max_time |-> 0]
    /\ next_sid = 1
    /\ pc = "idle"
    /\ sim = NoSim
    /\ ret = NoRet
    /\ calls = 0
    /\ cache = NoCache
    /\ arg = NoArg

\* Scene.simulate, lines 334-353: the copy and the order of the updates
StepCopy ==
    /\ st.pc = "start"
    /\ \E up \in BOOLEAN :
         \E c \in {copy(heap, st.src, next_sid, st.delta_t, KeepSet(st.to_keep))} :
            IF c.raised
            THEN /\ st' = [st EXCEPT !.pc = "raised"]
                 /\ heap' = heap
            ELSE /\ heap' = c.heap
                 /\ st' = [st EXCEPT !.pc = "loop", !.new = c.new, !.mapping = c.mapping,
                                     !.inds = SortedInds(c.heap, st.src, c.mapping, st.prioritize,
                                                         HashOf(st.src, up)),
                                     !.k = 1]
    /\ next_sid' = next_sid + 1
    /\ UNCHANGED <<scenario, scen_attrs, has_scenery, pc, sim, ret, calls, cache, arg>>

\* Scene.simulate, lines 354-356: the update of one individual
StepInd ==
    /\ st.pc = "loop"
    /\ st.k <= Len(st.inds)
    /\ \E r \in {IndSimulate(heap, st.mapping, st.src, st.new, st.inds[st.k], st.delta_t,
                             st.src.more_extras)} :
          IF r.raised
          THEN /\ st' = [st EXCEPT !.pc = "raised"]
               /\ heap' = heap
          ELSE /\ st' = [st EXCEPT !.k = @ + 1]
               /\ heap' = r.heap
    /\ UNCHANGED <<scenario, scen_attrs, has_scenery, next_sid, pc, sim, ret, calls, cache, arg>>

\* Scene.simulate, line 358: return new
StepReturn ==
    /\ st.pc = "loop"
    /\ st.k > Len(st.inds)
    /\ st' = [st EXCEPT !.pc = "done"]
    /\ UNCHANGED <<heap, scenario, scen_attrs, has_scenery, next_sid, pc, sim, ret, calls, cache, arg>>

\* the caller steps the scene it got
StepAgain ==
    /\ st.pc = "done"
    /\ st.steps < MaxSteps
    /\ st' = [st EXCEPT !.pc = "start", !.src = st.new, !.mapping = <<>>, !.inds = <<>>,
                        !.k = 0, !.steps = @ + 1, !.before = heap,
                        !.before_scene = st.new]
    /\ UNCHANGED <<heap, scenario, scen_attrs, has_scenery, next_sid, pc, sim, ret, calls, cache, arg>>

NextStep ==
    \/ StepCopy
    \/ StepInd
    \/ StepReturn
    \/ StepAgain

SpecStep == InitStep /\ [][NextStep]_vars

-----------------------------------------------------------------------------
(* The spatial objects of one scene, written and queried by a caller.       *)
(* cache.geo is the functools cache of Spatial_Object.get_geometry: the     *)
(* value each object's first call returned, kept until cache_clear.         *)

MaxOps == 3         \* calls a caller makes on the objects of one scene

Ego == <<0, "l4_de", "ego">>
Ped == <<0, "l4_core", "ped">>

\* Geometry(): a new individual, named after its class and the first free number
FreshGeometry(h, sid) ==
    LET free(k) == <<sid, "geosparql", "geometry" \o ToString(k)>> \notin DOMAIN h
        n == CHOOSE k \in 1..(Cardinality(DOMAIN h) + 1) :
                free(k) /\ \A j \in 1..(k - 1) : ~free(j)
    IN <<sid, "geosparql", "geometry" \o ToString(n)>>

\* what set_geometry and set_shapely_geometry share: lines 34, 52 and 55
NewGeometry(w, o, wkt) ==
    LET g == FreshGeometry(w.heap, o[1])
        w2 == AddIndividual(w, Individual(g[2], g[3], <<Geometry>>,
                                          [EmptyProps EXCEPT !["asWKT"] = <<wkt>>]))
    IN [w2 EXCEPT !.heap[o].p["hasGeometry"] = <<Ref(g)>>]

\* Spatial_Object.set_geometry(x, y, length, width); <<>> is None
set_geometry(c, w, o, x, length, width) ==
    IF length = <<>> \/ width = <<>>
    THEN LET w2 == NewGeometry(w, o, PointWkt(x))
         IN [heap |-> [w2.heap EXCEPT ![o].p["has_width"] = <<Lit(0)>>],
             scene |-> w2.scene, cache |-> [c EXCEPT !.geo = EmptyHeap]]
    ELSE LET w2 == NewGeometry(w, o, Wkt(x - length[1] \div 2, x + length[1] \div 2))
         IN [heap |-> [w2.heap EXCEPT ![o].p["has_length"] = <<Lit(length[1])>>,
                                      ![o].p["has_width"] = <<Lit(width[1])>>],
             scene |-> w2.scene, cache |-> [c EXCEPT !.geo = EmptyHeap]]

\* Spatial_Object.set_shapely_geometry(geometry)
set_shapely_geometry(c, w, o, wkt) ==
    LET w2 == NewGeometry(w, o, wkt)
    IN [heap |-> w2.heap, scene |-> w2.scene, cache |-> c]

\* Spatial_Object.get_geometry behind functools.cache: the value returned
\* (None without a geometry) and the cache afterwards
get_geometry_cached(c, h, o) ==
    IF o \in DOMAIN c.geo
    THEN [val |-> c.geo[o], cache |-> c]
    ELSE LET v == IF has_geometry(h, o) THEN get_geometry(h, o) ELSE None
         IN [val |-> v, cache |-> [c EXCEPT !.geo = (o :> v) @@ @]]

\* Spatial_Object.has_accident_with as a call: the outcomes it can have.
\* other.get_geometry() is evaluated first; None.intersects raises, and
\* intersects(None) raises or is False, depending on the geometry library.
has_accident_with_cached(c, h, self, other) ==
    IF ~(/\ Truthy(h[self].p["has_height"]) /\ Truthy(h[other].p["has_height"])
         /\ has_geometry(h, self) /\ has_geometry(h, other))
    THEN {[raised |-> FALSE, value |-> FALSE, cache |-> c]}
    ELSE LET g1 == get_geometry_cached(c, h, other)
             g2 == get_geometry_cached(g1.cache, h, self)
         IN IF g1.val = None
            THEN {[raised |-> TRUE, value |-> FALSE, cache |-> g1.cache]}
            ELSE IF g2.val = None
            THEN {[raised |-> TRUE, value |-> FALSE, cache |-> g2.cache],
                  [raised |-> FALSE, value |-> FALSE, cache |-> g2.cache]}
            ELSE {[raised |-> FALSE, cache |-> g2.cache,
                   value |-> Intersects(g1.val, g2.val) /\ NotDriving(h, self, other)]}

\* self.search(type=Spatial_Object), line 374
SpatialObjects(h, scene) ==
    SelectSeq([i \in 1..Len(scene.inds) |-> Obj(scene.sid, scene.inds[i])],
              LAMBDA o : IsInstance(h[o], Spatial_Object))

\* Scene.has_accident as a call, lines 375-379, from the pair (objs[i], objs[j]) on
RECURSIVE has_accident_from(_, _, _, _, _)
has_accident_from(c, h, objs, i, j) ==
    IF i > Len(objs) THEN {[raised |-> FALSE, value |-> FALSE, cache |-> c]}
    ELSE IF j >= i THEN has_accident_from(c, h, objs, i + 1, 1)
    ELSE UNION {IF r.raised \/ r.value THEN {r}
                ELSE has_accident_from(r.cache, h, objs, i, j + 1) :
                r \in has_accident_with_cached(c, h, objs[i], objs[j])}

has_accident_cached(c, h, scene) == has_accident_from(c, h, SpatialObjects(h, scene), 1, 1)

Heights == {<<>>, <<Lit(0)>>, <<Lit(-1)>>, <<Lit(2)>>}
\* footprints of the pedestrian: apart from the ego vehicle's, and across its front
PedFootprints == {Wkt(76000, 82000), Wkt(70000, 76000)}

InitAcc ==
    /\ \E ped_lo \in {76000, 70000}, he \in Heights, hp \in {<<Lit(0)>>, <<Lit(2)>>} :
         LET w == Populate(NewScene(EmptyHeap, 0, 0, TRUE, FALSE), 300, ped_lo)
         IN /\ heap = [w.heap EXCEPT ![Ego].p["has_height"] = he, ![Ped].p["has_height"] = hp]
            /\ scenario = <<w.scene>>
    /\ scen_attrs = [set |-> TRUE, duration |-> 0, max_time |-> 0]
    /\ has_scenery = TRUE
    /\ next_sid = 1
    /\ pc = "idle"
    /\ sim = NoSim
    /\ ret = NoRet
    /\ calls = 0
    /\ st = NoStep
    /\ cache = NoCache
    /\ arg = NoArg

\* a call self.has_accident_with(other)
HasAccidentWith(self, other) ==
    /\ calls < MaxOps
    /\ \E r \in has_accident_with_cached(cache, heap, self, other) :
         /\ cache' = r.cache
         /\ ret' = [kind |-> "has_accident_with", raised |-> r.raised, value |-> r.value,
                    self |-> self, other |-> other]
    /\ calls' = calls + 1
    /\ UNCHANGED <<heap, scenario, scen_attrs, has_scenery, next_sid, pc, sim, st, arg>>

\* a call scene.has_accident()
HasAccident ==
    /\ calls < MaxOps
    /\ \E r \in has_accident_cached(cache, heap, scenario[1]) :
         /\ cache' = r.cache
         /\ ret' = [kind |-> "has_accident", raised |-> r.raised, value |-> r.value]
    /\ calls' = calls + 1
    /\ UNCHANGED <<heap, scenario, scen_attrs, has_scenery, next_sid, pc, sim, st, arg>>

\* a call o.get_geometry()
GetGeometry(o) ==
    /\ calls < MaxOps
    /\ \E r \in {get_geometry_cached(cache, heap, o)} :
         /\ cache' = r.cache
         /\ ret' = [kind |-> "get_geometry", raised |-> FALSE, value |-> r.val, self |-> o]
    /\ calls' = calls + 1
    /\ UNCHANGED <<heap, scenario, scen_attrs, has_scenery, next_sid, pc, sim, st, arg>>

\* a call o.set_geometry(x, y, length, width)
SetGeometry(o, x, length, width) ==
    /\ calls < MaxOps
    /\ \E r \in {set_geometry(cache, [heap |-> heap, scene |-> scenario[1]], o, x, length, width)} :
         /\ heap' = r.heap
         /\ scenario' = <<r.scene>>
         /\ cache' = r.cache
    /\ ret' = [kind |-> "write", value |-> FALSE, self |-> o]
    /\ calls' = calls + 1
    /\ UNCHANGED <<scen_attrs, has_scenery, next_sid, pc, sim, st, arg>>

\* a call o.set_shapely_geometry(geometry)
SetShapelyGeometry(o, wkt) ==
    /\ calls < MaxOps
    /\ \E r \in {set_shapely_geometry(cache, [heap |-> heap, scene |-> scenario[1]], o, wkt)} :
         /\ heap' = r.heap
         /\ scenario' = <<r.scene>>
         /\ cache' = r.cache
    /\ ret' = [kind |-> "write", value |-> FALSE, self |-> o]
    /\ calls' = calls + 1
    /\ UNCHANGED <<scen_attrs, has_scenery, next_sid, pc, sim, st, arg>>

\* an assignment o.<prop> = v, as in "ped.has_height = 1.7"
SetAttr(o, prop, v) ==
    /\ calls < MaxOps
    /\ heap' = [heap EXCEPT ![o].p[prop] = v]
    /\ ret' = [kind |-> "write", value |-> FALSE, self |-> o]
    /\ calls' = calls + 1
    /\ UNCHANGED <<scenario, scen_attrs, has_scenery, next_sid, pc, sim, st, cache, arg>>

NextAcc ==
    \/ \E self \in {Ego, Ped} : \E other \in {Ego, Ped} \ {self} : HasAccidentWith(self, other)
    \/ HasAccident
    \/ GetGeometry(Ped)
    \/ SetGeometry(Ped, 73000, <<6000>>, <<3000>>)
    \/ \E wkt \in PedFootprints \cup {Str("POLYGON EMPTY")} : SetShapelyGeometry(Ped, wkt)
    \/ \E o \in {Ego, Ped}, v \in {<<Lit(0)>>, <<Lit(2)>>} : SetAttr(o, "has_height", v)
    \/ SetAttr(Ped, "drives", <<Ref(Ego)>>)

SpecAcc == InitAcc /\ [][NextAcc]_vars

-----------------------------------------------------------------------------
(* The trajectory predictor and the path intersection oracle               *)
(* (extras/physics/dynamical_object.py).  Objects move along the axis of   *)
(* their footprints: a yaw is 0 or 180 degrees, a turn is one of 0 or 180  *)
(* degrees.  Angles are in degrees, yaw rates in degrees per second.       *)
(* cache.pred is the functools cache of prediction, keyed by the object    *)
(* and the arguments; cache.ipw holds the intersects_path_with_cached      *)
(* dictionaries, keyed by <<owner of the dictionary, other object>>.       *)

Road1 == <<0, "l1_core", "road1">>

Max2(a, b) == IF a >= b THEN a ELSE b
Min2(a, b) == IF a <= b THEN a ELSE b

\* "x or 0" on an attribute value
OrZero(v) == IF v = <<>> THEN 0 ELSE v[1][2]

\* math.cos(math.radians(a)) for the angles of an object on the axis
Cos(a) == CASE a % 360 = 0 -> 1 [] a % 360 = 180 -> -1

IsPolygon(g) == g[4] # "POINT"

\* the centroid of a footprint
Centroid(g) == (g[2] + g[3]) \div 2

\* Spatial_Object.get_centroid is called but not defined in the sources: the
\* centroid of the footprint get_geometry returns, None without one
get_centroid(c, h, o) ==
    LET g == get_geometry_cached(c, h, o)
    IN [val |-> IF g.val = None THEN <<>> ELSE <<Centroid(g.val)>>, cache |-> g.cache]

\* len(numpy.arange(delta_t, horizon + delta_t, delta_t)) for delta_t > 0
ArangeLen(delta_t, horizon) ==
    IF horizon <= 0 THEN 0 ELSE (horizon + delta_t - 1) \div delta_t

\* affinity.rotate(geo, angle, origin=center)
affinity_rotate(geo, angle, center) ==
    CASE angle % 360 = 0 -> geo
      [] angle % 360 = 180 -> <<geo[1], 2 * center - geo[3], 2 * center - geo[2], geo[4], geo[5]>>

\* affinity.translate(geo, xoff=xoff, yoff=0)
affinity_translate(geo, xoff) == <<geo[1], geo[2] + xoff, geo[3] + xoff, geo[4], geo[5]>>

\* Dynamical_Object.prediction, lines 259-278: the iterations k..n of the loop
RECURSIVE PredictionLoop(_, _, _, _, _, _, _, _)
PredictionLoop(geos, geo, yaw, yaw_rate, k, n, delta_t, q) ==
    IF k > n THEN geos
    ELSE LET yaw2 == yaw + (yaw_rate * delta_t) \div 100
             xoff == Cos(yaw2) * q.speed * delta_t
             center == IF IsPolygon(geo)
                       THEN q.geo_c + ((4 * q.length) \div 10) * Cos(q.has_yaw + 180)
                       ELSE q.geo_c
             geo2 == affinity_translate(affinity_rotate(geo, yaw2 - yaw, center), xoff)
         IN PredictionLoop(Append(geos, <<geo2, k * delta_t>>), geo2, yaw2,
                           (yaw_rate * (1000 - 4 * delta_t)) \div 1000, k + 1, n, delta_t, q)

\* self._RELEVANT_LOWEST_SPEED in cm/s: 0.15 m/s, and 0.05 m/s for a Pedestrian
RELEVANT_LOWEST_SPEED(h, self) == IF IsInstance(h[self], Pedestrian) THEN 5 ELSE 15

\* line 254: max(self._RELEVANT_LOWEST_SPEED * 10, self.has_speed), in cm/s
RelevantSpeed(lowest, has_speed) == Max2(lowest * 10, has_speed)

\* Dynamical_Object.prediction, lines 238-279, without its cache.  It raises in
\* the first iteration when there is no footprint to rotate (line 275) and when
\* the footprint is a polygon and has_yaw is None (line 271).
prediction_body(c, h, self, delta_t, horizon) ==
    LET p == h[self].p
        target == IF Len(p["drives"]) > 0 THEN ObjOf(p["drives"][1]) ELSE self
        g == get_geometry_cached(c, h, target)
        gc == get_centroid(g.cache, h, target)
        n == ArangeLen(delta_t, horizon)
        parking == \E i \in 1..Len(h[self].is_a) :
                       ClassStr(h[self].is_a[i]) = ClassStr(Parking_Vehicle)
        speed == IF p["has_yaw"] = <<>> THEN 0
                 ELSE IF p["has_speed"] = <<>> THEN 0
                 ELSE IF parking THEN p["has_speed"][1][2]
                 ELSE RelevantSpeed(RELEVANT_LOWEST_SPEED(h, self), p["has_speed"][1][2])
        length == IF OrZero(p["has_length"]) # 0 THEN OrZero(p["has_length"])
                  ELSE IF Len(p["drives"]) > 0 THEN OrZero(h[target].p["has_length"])
                  ELSE 0
    IN IF n > 0 /\ (g.val = None \/ (IsPolygon(g.val) /\ p["has_yaw"] = <<>>))
       THEN [raised |-> TRUE, value |-> <<>>, cache |-> gc.cache]
       ELSE [raised |-> FALSE, cache |-> gc.cache,
             value |-> PredictionLoop(<< <<g.val, 0>> >>, g.val, OrZero(p["has_yaw"]),
                                      OrZero(p["has_yaw_rate"]), 1, n, delta_t,
                                      [speed |-> speed, length |-> length,
                                       has_yaw |-> OrZero(p["has_yaw"]),
                                       geo_c |-> IF gc.val = <<>> THEN 0 ELSE gc.val[1]])]

\* Dynamical_Object.prediction behind functools.cache (line 228)
prediction(c, h, self, delta_t, horizon) ==
    IF <<self, delta_t, horizon>> \in DOMAIN c.pred
    THEN [raised |-> FALSE, value |-> c.pred[<<self, delta_t, horizon>>], cache |-> c]
    ELSE LET r == prediction_body(c, h, self, delta_t, horizon)
         IN IF r.raised THEN r
            ELSE [r EXCEPT !.cache.pred = (<<self, delta_t, horizon>> :> r.value) @@ @]

None3 == << <<>>, <<>>, <<>> >>
Swap(v) == <<v[2], v[1], v[3]>>

\* a footprint intersects the union of the footprints of a prediction
IntersectsUnion(g, pred) == \E i \in 1..Len(pred) : Intersects(g, pred[i][1])

\* intersection.area > 0
OverlapArea(g1, g2) == Max2(0, Min2(g1[3], g2[3]) - Max2(g1[2], g2[2]))

\* lines 204-211: the candidates, as pairs of positions in the two predictions
Candidates(pred_1, pred_2, horizon) ==
    IF ~(\E i \in 1..Len(pred_1) : IntersectsUnion(pred_1[i][1], pred_2)) THEN {}
    ELSE {ij \in (1..Len(pred_1)) \X (1..Len(pred_2)) :
            /\ IntersectsUnion(pred_1[ij[1]][1], pred_2)
            /\ pred_1[ij[1]][2] + pred_2[ij[2]][2] <= horizon
            /\ IntersectsUnion(pred_2[ij[2]][1], pred_1)
            /\ OverlapArea(pred_1[ij[1]][1], pred_2[ij[2]][1]) > 0}

\* the first candidate when the candidates are ordered by t_1 alone
Soonest_ByFirst(pred_1, pred_2, horizon) ==
    LET cs == Candidates(pred_1, pred_2, horizon)
        first == CHOOSE ij \in cs : \A kl \in cs :
                    ij[1] < kl[1] \/ (ij[1] = kl[1] /\ ij[2] <= kl[2])
        g1 == pred_1[first[1]][1]
        g2 == pred_2[first[2]][1]
    IN IF cs = {} THEN None3
       ELSE << <<pred_1[first[1]][2]>>, <<pred_2[first[2]][2]>>,
               <<(Max2(g1[2], g2[2]) + Min2(g1[3], g2[3])) \div 2>> >>

\* lines 213-217: the first candidate after the stable sort by t_1 + t_2
Soonest(pred_1, pred_2, horizon) ==
    LET cs == Candidates(pred_1, pred_2, horizon)
        sum(ij) == pred_1[ij[1]][2] + pred_2[ij[2]][2]
        first == CHOOSE ij \in cs : \A kl \in cs :
                    \/ sum(ij) < sum(kl)
                    \/ sum(ij) = sum(kl) /\ (ij[1] < kl[1] \/ (ij[1] = kl[1] /\ ij[2] <= kl[2]))
        g1 == pred_1[first[1]][1]
        g2 == pred_2[first[2]][1]
    IN IF cs = {} THEN None3
       ELSE << <<pred_1[first[1]][2]>>, <<pred_2[first[2]][2]>>,
               <<(Max2(g1[2], g2[2]) + Min2(g1[3], g2[3])) \div 2>> >>

\* lines 218-219 with the same tuple stored in both dictionaries
ipw_store_Unswapped(c, self, other, v) ==
    [c EXCEPT !.ipw = (<<self, other>> :> v) @@ (<<other, self>> :> v) @@ @]

\* lines 218-219
ipw_store(c, self, other, v) ==
    [c EXCEPT !.ipw = (<<self, other>> :> v) @@ (<<other, self>> :> Swap(v)) @@ @]

\* Dynamical_Object.intersects_path_with
intersects_path_with(c, h, self, other, delta_t, horizon) ==
    IF /\ <<self, other>> \notin DOMAIN c.ipw /\ self # other
       /\ has_geometry(h, self) /\ has_geometry(h, other)
    THEN LET p_1 == get_centroid(c, h, self)
             p_2 == get_centroid(p_1.cache, h, other)
             pred_1 == prediction(p_2.cache, h, self, delta_t, horizon)
             pred_2 == IF IsInstance(h[other], Dynamical_Object)
                       THEN prediction(pred_1.cache, h, other, delta_t, horizon)
                       ELSE LET g == get_geometry_cached(pred_1.cache, h, self)
                            IN [raised |-> ArangeLen(delta_t, horizon) = 0 \/ g.val = None,
                                cache |-> g.cache,
                                value |-> [k \in 1..ArangeLen(delta_t, horizon) |->
                                              <<g.val, k * delta_t>>]]
         IN IF p_1.val = p_2.val
            THEN [raised |-> FALSE, value |-> None3,
                  cache |-> ipw_store(p_2.cache, self, other, None3)]
            ELSE IF pred_1.raised
            THEN [raised |-> TRUE, value |-> None3, cache |-> pred_1.cache]
            ELSE IF pred_2.raised
            THEN [raised |-> TRUE, value |-> None3, cache |-> pred_2.cache]
            ELSE LET v == Soonest(pred_1.value, pred_2.value, horizon)
                 IN [raised |-> FALSE, value |-> v,
                     cache |-> ipw_store(pred_2.cache, self, other, v)]
    ELSE IF <<self, other>> \in DOMAIN c.ipw
    THEN [raised |-> FALSE, value |-> c.ipw[<<self, other>>], cache |-> c]
    ELSE [raised |-> FALSE, value |-> None3, cache |-> c]

DeltaT == 250       \* the sampling interval the caller passes, 2.5 s
PredictionHorizons == {500, 600}
OracleHorizons == {500, 1000}

\* the scenes the caller starts from: attributes of the ego vehicle and of
\* the pedestrian that differ from those of Populate
PredVariant(e_class, e_speed, e_rate, p_yaw, p_speed, p_geo, p_drives) ==
    [e_class |-> e_class, e_speed |-> e_speed, e_rate |-> e_rate, p_yaw |-> p_yaw,
     p_speed |-> p_speed, p_geo |-> p_geo, p_drives |-> p_drives]

PredVariants ==
    {PredVariant(Passenger_Car, <<Lit(300)>>, <<>>, <<Lit(180)>>, <<Lit(0)>>, Wkt(240000, 246000), <<>>),
     PredVariant(Passenger_Car, <<Lit(300)>>, <<>>, <<Lit(180)>>, <<Lit(0)>>, PointWkt(283000), <<>>),
     PredVariant(Passenger_Car, <<Lit(300)>>, <<>>, <<>>, <<>>, Wkt(280000, 286000), <<>>),
     PredVariant(Passenger_Car, <<Lit(300)>>, <<>>, <<>>, <<Lit(100)>>, PointWkt(100000), <<>>),
     PredVariant(Passenger_Car, <<Lit(300)>>, <<Lit(72)>>, <<Lit(0)>>, <<Lit(200)>>, Wkt(-100000, -94000), <<>>),
     PredVariant(Parking_Vehicle, <<Lit(0)>>, <<Lit(0)>>, <<Lit(180)>>, <<Lit(200)>>, Wkt(150000, 156000), <<>>),
     PredVariant(Passenger_Car, <<>>, <<>>, <<Lit(180)>>, <<Lit(200)>>, Wkt(100000, 106000), <<>>),
     PredVariant(Passenger_Car, <<Lit(300)>>, <<>>, <<Lit(180)>>, <<Lit(300)>>, Wkt(150000, 156000), <<>>),
     PredVariant(Passenger_Car, <<Lit(300)>>, <<>>, <<Lit(180)>>, <<Lit(0)>>, Wkt(47000, 53000), <<>>),
     PredVariant(Passenger_Car, <<Lit(300)>>, <<>>, <<Lit(0)>>, <<Lit(200)>>, Wkt(47000, 53000), <<Ref(Ego)>>),
     PredVariant(Passenger_Car, <<Lit(300)>>, <<>>, <<Lit(0)>>, <<Lit(200)>>, Wkt(-300000, -294000), <<>>)}

InitPred ==
    /\ \E x \in PredVariants :
         LET w == Populate(NewScene(EmptyHeap, 0, 0, TRUE, FALSE), 300, 76000)
             g == ObjOf(w.heap[Ped].p["hasGeometry"][1])
         IN /\ heap = [w.heap EXCEPT ![Ego].is_a = <<x.e_class>>,
                                     ![Ego].p["has_speed"] = x.e_speed,
                                     ![Ego].p["has_yaw_rate"] = x.e_rate,
                                     ![Ped].p["has_yaw"] = x.p_yaw,
                                     ![Ped].p["has_speed"] = x.p_speed,
                                     ![Ped].p["drives"] = x.p_drives,
                                     ![g].p["asWKT"] = <<x.p_geo>>]
            /\ scenario = <<w.scene>>
    /\ scen_attrs = [set |-> TRUE, duration |-> 0, max_time |-> 0]
    /\ has_scenery = TRUE
    /\ next_sid = 1
    /\ pc = "idle"
    /\ sim = NoSim
    /\ ret = NoRet
    /\ calls = 0
    /\ st = NoStep
    /\ cache = NoCache
    /\ arg = NoArg

\* a call self.prediction(delta_t=delta_t, horizon=horizon)
Prediction(self, delta_t, horizon) ==
    /\ calls < MaxOps
    /\ \E r \in {prediction(cache, heap, self, delta_t, horizon)} :
         /\ cache' = r.cache
         /\ ret' = [kind |-> "prediction", raised |-> r.raised, value |-> r.value,
                    self |-> self, delta_t |-> delta_t, horizon |-> horizon]
    /\ calls' = calls + 1
    /\ UNCHANGED <<heap, scenario, scen_attrs, has_scenery, next_sid, pc, sim, st, arg>>

\* a call self.intersects_path_with(other, delta_t=delta_t, horizon=horizon)
IntersectsPathWith(self, other, delta_t, horizon) ==
    /\ calls < MaxOps
    /\ \E r \in {intersects_path_with(cache, heap, self, other, delta_t, horizon)} :
         /\ cache' = r.cache
         /\ ret' = [kind |-> "intersects_path_with", raised |-> r.raised, value |-> r.value,
                    self |-> self, other |-> other, delta_t |-> delta_t, horizon |-> horizon]
    /\ calls' = calls + 1
    /\ UNCHANGED <<heap, scenario, scen_attrs, has_scenery, next_sid, pc, sim, st, arg>>

NextPred ==
    \/ \E self \in {Ego, Ped}, horizon \in PredictionHorizons : Prediction(self, DeltaT, horizon)
    \/ \E self \in {Ego, Ped} : \E other \in {Ego, Ped, Road1} \ {self}, horizon \in OracleHorizons :
          IntersectsPathWith(self, other, DeltaT, horizon)
    \/ SetAttr(Ego, "has_speed", <<Lit(600)>>)
    \/ SetAttr(Ped, "has_yaw", <<Lit(0)>>)
    \/ SetShapelyGeometry(Ped, Wkt(100000, 106000))
    \/ SetGeometry(Ped, 283000, <<>>, <<>>)

SpecPred == InitPred /\ [][NextPred]_vars

-----------------------------------------------------------------------------
(* The intersecting-path augmentation: Dynamical_Object.augment_intersecting_paths *)

INTERSECTING_PATH_THRESHOLD == 800      \* _INTERSECTING_PATH_THRESHOLD, 8 s
INTERSECTING_PATH_MAX_PET == 500        \* _INTERSECTING_PATH_MAX_PET, 5 s

\* the defaults of intersects_path_with: delta_t = 0.25, horizon = 10
DefaultDeltaT == 25
DefaultHorizon == 1000

\* lines 122-124: the condition on the driving relation
DrivesCondition(h, self, other) ==
    \/ Len(h[self].p["drives"]) = 0 /\ Len(h[other].p["drives"]) = 0
    \/ Len(h[self].p["drives"]) > 0 /\ Ref(other) \notin Range(h[self].p["drives"])
    \/ Len(h[other].p["drives"]) > 0 /\ Ref(self) \notin Range(h[other].p["drives"])

\* lines 122-126.  "A and self.get_speed() or 0 > 0 and other.get_speed() or 0 > 0"
\* is (A and self.get_speed()) or (0 > 0 and other.get_speed()) or (0 > 0)
AugmentCondition(h, self, other) ==
    \/ /\ self # other
       /\ DrivesCondition(h, self, other)
       /\ has_geometry(h, self) /\ has_geometry(h, other)
       /\ Truthy(get_speed(h, self))
    \/ 0 > 0 /\ Truthy(get_speed(h, other))
    \/ 0 > 0

\* the comparison of lines 131-132 without the post-encroachment time
IntersectingPathCriterion_NoPET(t_self, t_other) ==
    t_self + t_other < INTERSECTING_PATH_THRESHOLD

\* lines 131-132
IntersectingPathCriterion(t_self, t_other) ==
    /\ t_self + t_other < INTERSECTING_PATH_THRESHOLD
    /\ Abs(t_self - t_other) < INTERSECTING_PATH_MAX_PET

\* Dynamical_Object.augment_intersecting_paths; the value is "True", "False" or "None"
augment_intersecting_paths(c, h, self, other) ==
    IF AugmentCondition(h, self, other)
    THEN LET returned(r) ==
                 IF r.raised THEN [raised |-> TRUE, value |-> "None", cache |-> r.cache]
                 ELSE IF r.value[1] = <<>> \/ r.value[2] = <<>>
                 THEN [raised |-> FALSE, value |-> "False", cache |-> r.cache]
                 ELSE [raised |-> FALSE, cache |-> r.cache,
                       value |-> IF IntersectingPathCriterion(r.value[1][1], r.value[2][1])
                                 THEN "True" ELSE "False"]
         IN Only({returned(r) : r \in {intersects_path_with(c, h, self, other,
                                                             DefaultDeltaT, DefaultHorizon)}})
    ELSE [raised |-> FALSE, value |-> "None", cache |-> c]

\* the scenes the augmentation is run on, as differences to those of Populate
AugVariants ==
    {PredVariant(Passenger_Car, <<Lit(300)>>, <<>>, <<Lit(180)>>, <<Lit(200)>>, Wkt(150000, 156000), <<>>),
     PredVariant(Passenger_Car, <<Lit(300)>>, <<>>, <<Lit(180)>>, <<Lit(0)>>, Wkt(245500, 251500), <<>>),
     PredVariant(Passenger_Car, <<Lit(300)>>, <<>>, <<Lit(180)>>, <<Lit(0)>>, Wkt(100000, 106000), <<>>),
     PredVariant(Passenger_Car, <<Lit(300)>>, <<>>, <<Lit(0)>>, <<Lit(300)>>, Wkt(500000, 506000), <<>>),
     PredVariant(Passenger_Car, <<Lit(300)>>, <<>>, <<Lit(0)>>, <<Lit(200)>>, Wkt(47000, 53000), <<Ref(Ego)>>),
     PredVariant(Passenger_Car, <<>>, <<>>, <<Lit(180)>>, <<Lit(200)>>, Wkt(100000, 106000), <<>>),
     PredVariant(Passenger_Car, <<Lit(-100)>>, <<>>, <<Lit(180)>>, <<>>, Wkt(100000, 106000), <<>>),
     PredVariant(Passenger_Car, <<Lit(300)>>, <<>>, <<Lit(180)>>, <<Lit(0)>>, Wkt(345500, 351500), <<>>),
     PredVariant(Passenger_Car, <<Lit(300)>>, <<>>, <<>>, <<Lit(200)>>, Wkt(100000, 106000), <<>>)}

InitAug ==
    /\ \E x \in AugVariants :
         LET w == Populate(NewScene(EmptyHeap, 0, 0, TRUE, FALSE), 300, 76000)
             g == ObjOf(w.heap[Ped].p["hasGeometry"][1])
         IN /\ heap = [w.heap EXCEPT ![Ego].is_a = <<x.e_class>>,
                                     ![Ego].p["has_speed"] = x.e_speed,
                                     ![Ego].p["has_yaw_rate"] = x.e_rate,
                                     ![Ped].p["has_yaw"] = x.p_yaw,
                                     ![Ped].p["has_speed"] = x.p_speed,
                                     ![Ped].p["drives"] = x.p_drives,
                                     ![g].p["asWKT"] = <<x.p_geo>>]
            /\ scenario = <<w.scene>>
    /\ scen_attrs = [set |-> TRUE, duration |-> 0, max_time |-> 0]
    /\ has_scenery = TRUE
    /\ next_sid = 1
    /\ pc = "idle"
    /\ sim = NoSim
    /\ ret = NoRet
    /\ calls = 0
    /\ st = NoStep
    /\ cache = NoCache
    /\ arg = NoArg

MaxAugs == 2        \* calls a caller makes before the augmentation is looked at

\* a call self.augment_intersecting_paths(other)
AugmentIntersectingPaths(self, other) ==
    /\ calls < MaxAugs
    /\ \E r \in {augment_intersecting_paths(cache, heap, self, other)} :
         /\ cache' = r.cache
         /\ ret' = [kind |-> "augment_intersecting_paths", raised |-> r.raised,
                    value |-> r.value, self |-> self, other |-> other]
    /\ calls' = calls + 1
    /\ UNCHANGED <<heap, scenario, scen_attrs, has_scenery, next_sid, pc, sim, st, arg>>

NextAug ==
    \/ \E self \in {Ego, Ped}, other \in {Ego, Ped} : AugmentIntersectingPaths(self, other)
    \/ calls < MaxAugs /\ SetAttr(Ped, "has_speed", <<Lit(200)>>)
    \/ calls < MaxAugs /\ SetAttr(Ego, "has_speed", <<Lit(0)>>)

SpecAug == InitAug /\ [][NextAug]_vars

-----------------------------------------------------------------------------
(* Properties of the scenario sequencer (specification Spec) *)

\* a call of Scenario.simulate has just returned; sim holds what its locals were
Returned == pc = "idle" /\ ret.kind = "return"

\* the scenes the call appended
Appended == SubSeq(scenario, sim.len0 + 1, Len(scenario))

AccidentIn(scene) == has_accident(heap, scene)

\* C1: a call on a non-empty scenario with duration > 0 and delta_t > 0 in which no
\* produced scene has an accident returns after appending exactly
\* floor(duration / delta_t) scenes, and the k-th of them has the time stamp
\* start + k * delta_t, start being the time stamp of the last scene before the call.
C1_ScenesAndTimestamps ==
    (/\ Returned
     /\ sim.len0 > 0 /\ sim.duration > 0 /\ sim.delta_t.val > 0
     /\ \A k \in 1..Len(Appended) : ~AccidentIn(Appended[k]))
    => /\ Len(Appended) = sim.duration \div sim.delta_t.val
       /\ \A k \in 1..Len(Appended) :
             Appended[k].timestamp = sim.start_t + k * sim.delta_t.val

\* C2: with stop_at_accidents, no scene is appended after the first appended scene
\* with an accident: when the call returns, an appended scene with an accident is
\* the last scene of the scenario (so every scene appended before it has none).
C2_StopsAtFirstAccident ==
    (Returned /\ sim.stop_at_accidents)
    => \A k \in 1..Len(Appended) : AccidentIn(Appended[k]) => k = Len(Appended)

\* the call stopped at an accident in its second scene, before the duration was exhausted
C2_Witness ==
    /\ Returned /\ sim.stop_at_accidents
    /\ Len(Appended) = 2 /\ Len(Appended) < sim.n
    /\ AccidentIn(Appended[2]) /\ ~AccidentIn(Appended[1])

\* the last call was Scenario.simulate, made on a scenario without scenes
CalledOnEmpty ==
    /\ pc = "idle" /\ sim.len0 = 0
    /\ ret.kind \in {"return", "IndexError", "ZeroDivisionError", "ValueError", "raised"}

\* C3: Scenario.simulate on a scenario with zero scenes raises no error, returns
\* False and leaves the scenario empty, whatever duration and delta_t are.
C3_EmptyScenarioNoOp ==
    CalledOnEmpty => ret = [kind |-> "return", value |-> FALSE] /\ scenario = <<>>

\* the call on the empty scenario had a positive duration and a delta_t of 0
C3_Witness ==
    /\ CalledOnEmpty /\ ret.kind = "return"
    /\ sim.duration > 0 /\ sim.delta_t.val = 0

\* C4: Scenario.simulate returns True if and only if at least one scene appended
\* during the call has an accident, with stop_at_accidents enabled or disabled.
C4_ReturnsAccident ==
    Returned => (ret.value <=> \E k \in 1..Len(Appended) : AccidentIn(Appended[k]))

\* without stop_at_accidents, an accident in the first appended scene and none in
\* the last one: True is returned
C4_Witness ==
    /\ Returned /\ ~sim.stop_at_accidents /\ ret.value
    /\ Len(Appended) = 2
    /\ AccidentIn(Appended[1]) /\ ~AccidentIn(Appended[2])

\* C5: in every reachable state the scenes of the scenario have strictly increasing
\* time stamps in list order.
C5_TimestampsIncrease ==
    \A i \in 1..(Len(scenario) - 1) : scenario[i].timestamp < scenario[i + 1].timestamp

-----------------------------------------------------------------------------
(* Properties of the scene stepper (specification SpecStep) *)

\* Scene.copy has returned in the running Scene.simulate call
Copied == st.pc \in {"loop", "done"}

SrcObj(i) == Obj(st.src.sid, st.mapping[i][1])
NewObj(i) == Obj(st.new.sid, st.mapping[i][2])

\* C6: the mapping Scene.copy returns is injective, every entity of the source scene
\* is a key of it or is in the new scene under the same identifier, and every
\* mapped new entity has the name and the set of directly asserted classes of its
\* source entity.
C6_CopyMapping ==
    Copied =>
       /\ \A i, j \in 1..Len(st.mapping) : st.mapping[i][2] = st.mapping[j][2] => i = j
       /\ \A iri \in Range(st.src.inds) : MapHas(st.mapping, iri) \/ iri \in Range(st.new.inds)
       /\ \A i \in 1..Len(st.mapping) :
             /\ heap[NewObj(i)].name = heap[SrcObj(i)].name
             /\ Range(heap[NewObj(i)].is_a) = Range(heap[SrcObj(i)].is_a)

PreservedProps == {var \in PropNames : PropStr(var) \in KeepSet(st.to_keep)}

\* C8: after Scene.copy every new entity holds, for every attribute of the preserve
\* set, the value of its source entity, entity-typed values being translated to
\* entities of the new scene; no preserved attribute of an entity of the new scene
\* refers to an entity of the source scene.
C8_PreservedTranslated ==
    (st.pc = "loop" /\ st.k = 1) =>
       /\ \A i \in 1..Len(st.mapping), var \in PreservedProps :
             LET old == heap[SrcObj(i)].p[var]
                 val == heap[NewObj(i)].p[var]
             IN /\ Len(val) = Len(old)
                /\ \A n \in 1..Len(old) :
                      IF IsRef(old[n]) THEN IsRef(val[n]) /\ val[n][2] = st.new.sid
                      ELSE val[n] = old[n]
       /\ \A o \in DOMAIN heap, var \in PreservedProps :
             o[1] = st.new.sid =>
                \A n \in 1..Len(heap[o].p[var]) :
                   ~(IsRef(heap[o].p[var][n]) /\ heap[o].p[var][n][2] = st.src.sid)

\* index of the first entry of prioritize an entity matches; Len + 1 if it matches none
FirstMatch(iri) ==
    LET a == heap[Obj(st.src.sid, iri)]
        hits == {i \in 1..Len(st.prioritize) : PrioMatches(a, st.prioritize[i])}
    IN IF hits = {} THEN Len(st.prioritize) + 1 ELSE CHOOSE i \in hits : \A j \in hits : i <= j

\* the entities whose rule has run, and those whose rule has not run yet
Updated == {st.inds[x] : x \in 1..(st.k - 1)}
Pending == {st.inds[x] : x \in st.k..Len(st.inds)}

\* C9: with a priority list the rules run in priority order: at no moment has the
\* rule of an entity run while an entity with an earlier first matching entry,
\* or, for an entity matching no entry, an entity matching some entry, is waiting.
C9_PriorityOrder ==
    (Copied /\ st.prioritize # NoPrio) =>
       /\ \A a \in Updated, b \in Pending : FirstMatch(a) <= FirstMatch(b)
       /\ Updated \cup Pending = {st.mapping[i][1] : i \in 1..Len(st.mapping)}

\* the driver was updated before the car, the car before an entity matching nothing,
\* although the hashes alone order the driver last
C9_Witness ==
    /\ st.pc = "done" /\ Len(st.prioritize) = 2
    /\ \E x, y, z \in 1..Len(st.inds) :
          /\ x < y /\ y < z
          /\ FirstMatch(st.inds[x]) = 1 /\ FirstMatch(st.inds[y]) = 2
          /\ FirstMatch(st.inds[z]) = 3
          /\ st.inds[x] = <<"l4_core", "drv">>
          /\ \E w \in 1..Len(st.src.inds) : st.src.inds[w] = st.inds[z]
                /\ st.src.inds[Len(st.src.inds)] = st.inds[x]

\* C10: a step with the default update rule leaves its source scene as it was:
\* time stamp, entity set and every attribute value of every source entity.
C10_SourceUnchanged ==
    (Copied /\ ~st.src.more_extras) =>
       /\ st.src = st.before_scene
       /\ {o \in DOMAIN heap : o[1] = st.src.sid} = {o \in DOMAIN st.before : o[1] = st.src.sid}
       /\ \A o \in DOMAIN st.before : heap[o] = st.before[o]

\* the default rule has given the new ego vehicle the velocity of the source's
C10_Witness ==
    /\ st.pc = "done" /\ ~st.src.more_extras
    /\ <<st.new.sid, "l4_de", "ego">> \in DOMAIN heap
    /\ heap[<<st.new.sid, "l4_de", "ego">>].p["has_velocity_x"] = <<Lit(300)>>
    /\ heap[<<st.new.sid, "l4_de", "ego">>].p["hasGeometry"]
          = <<Ref(<<st.new.sid, "geosparql", "geometry2">>)>>

-----------------------------------------------------------------------------
(* Properties of accident detection (specification SpecAcc) *)

PositiveHeight(h, o) == h[o].p["has_height"] # <<>> /\ h[o].p["has_height"][1][2] > 0

\* both objects have a positive height and a geometry, their footprints as they
\* are now intersect, and neither drives the other
AccidentCondition(h, a, b) ==
    /\ PositiveHeight(h, a) /\ PositiveHeight(h, b)
    /\ has_geometry(h, a) /\ has_geometry(h, b)
    /\ Intersects(get_geometry(h, a), get_geometry(h, b))
    /\ NotDriving(h, a, b)

\* C11: has_accident_with(a, b) is true exactly when both a and b have positive
\* height and geometry, their footprints intersect, and neither drives nor is
\* driven by the other; it is never true when a height is absent, zero or negative.
C11_AccidentExactly ==
    ret.kind = "has_accident_with" =>
        (ret.value <=> AccidentCondition(heap, ret.self, ret.other))

\* C12: for two entities with intersecting footprints, both heights > 0 and no
\* driving relation, has_accident_with is true and Scene.has_accident is true;
\* with the height of either entity zero, has_accident_with is false for the pair.
C12_AccidentMonotone ==
    /\ ret.kind = "has_accident_with" =>
          /\ AccidentCondition(heap, ret.self, ret.other) => ret.value
          /\ (\E o \in {ret.self, ret.other} : heap[o].p["has_height"] = <<Lit(0)>>) => ~ret.value
    /\ ret.kind = "has_accident" =>
          ((\E a \in {Ego, Ped} : \E b \in {Ego, Ped} \ {a} : AccidentCondition(heap, a, b))
              => ret.value)

-----------------------------------------------------------------------------
(* Properties of the predictor and the oracle (specification SpecPred) *)

Dynamical(o) == IsInstance(heap[o], Dynamical_Object)

\* the object whose footprint a prediction of o starts from (line 239)
FootprintOf(h, o) ==
    IF Len(h[o].p["drives"]) > 0 THEN ObjOf(h[o].p["drives"][1]) ELSE o

\* C13: for all pairs of entities A and B and in every order of queries,
\* A.intersects_path_with(B) returns (t1, t2, p) exactly when
\* B.intersects_path_with(A) returns (t2, t1, p), the no-intersection result
\* included: what one object holds for the other is the swap of what the other
\* holds for it, and once a query has returned, the reversed query returns the swap.
C13_IntersectionSymmetry ==
    /\ \A a \in {Ego, Ped} : \A b \in {Ego, Ped} :
          <<a, b>> \in DOMAIN cache.ipw =>
              /\ <<b, a>> \in DOMAIN cache.ipw
              /\ cache.ipw[<<b, a>>] = Swap(cache.ipw[<<a, b>>])
    /\ (ret.kind = "intersects_path_with" /\ ~ret.raised /\ Dynamical(ret.other)) =>
          \A horizon \in OracleHorizons :
              LET r == intersects_path_with(cache, heap, ret.other, ret.self, DeltaT, horizon)
              IN ~r.raised /\ r.value = Swap(ret.value)

\* an intersection with different times was returned for two dynamical objects
C13_Witness ==
    /\ ret.kind = "intersects_path_with" /\ ~ret.raised /\ Dynamical(ret.other)
    /\ ret.value # None3 /\ ret.value[1] # ret.value[2]
    /\ <<ret.other, ret.self>> \in DOMAIN cache.ipw

\* some sampled footprint of a overlaps some sampled footprint of b with
\* positive area, both sampled within the horizon from the attributes as they are
SamplesOverlap(h, a, b, delta_t, horizon) ==
    LET p1 == prediction_body(NoCache, h, a, delta_t, horizon)
        p2 == prediction_body(NoCache, h, b, delta_t, horizon)
    IN /\ ~p1.raised /\ ~p2.raised
       /\ \E i \in 1..Len(p1.value) : \E j \in 1..Len(p2.value) :
             /\ p1.value[i][2] <= horizon /\ p2.value[j][2] <= horizon
             /\ OverlapArea(p1.value[i][1], p2.value[j][1]) > 0

\* C14: intersects_path_with returns (None, None, None) only if no pair of
\* sampled predicted footprints of the two entities overlaps within the horizon
\* or a geometry is missing; whenever some sampled footprint of one overlaps
\* some sampled footprint of the other with positive area, an intersection is returned.
C14_NoIntersectionOnlyIfNone ==
    (/\ ret.kind = "intersects_path_with" /\ ~ret.raised /\ Dynamical(ret.other)
     /\ has_geometry(heap, ret.self) /\ has_geometry(heap, ret.other)
     /\ SamplesOverlap(heap, ret.self, ret.other, ret.delta_t, ret.horizon))
    => ret.value # None3

\* C15: after a kinematic attribute of an entity (speed, yaw or footprint) was
\* changed, the next prediction on that entity and the next intersects_path_with
\* query involving it return what the new attribute values give, not what was
\* cached before the change.
C15_CacheFreshness ==
    [][/\ (ret.kind = "write" /\ ret'.kind = "prediction" /\ ret'.self = ret.self) =>
             LET r == prediction_body(NoCache, heap', ret'.self, ret'.delta_t, ret'.horizon)
             IN ret'.raised = r.raised /\ (~r.raised => ret'.value = r.value)
       /\ (ret.kind = "write" /\ ret'.kind = "intersects_path_with"
             /\ ret.self \in {ret'.self, ret'.other}) =>
             LET r == intersects_path_with(NoCache, heap', ret'.self, ret'.other,
                                           ret'.delta_t, ret'.horizon)
             IN ret'.raised = r.raised /\ (~r.raised => ret'.value = r.value)]_vars

\* C16: prediction(delta_t, horizon) returns an ordered sequence whose first
\* sample is the entity's current footprint at elapsed time 0 and whose sample
\* times are 0, delta_t, 2*delta_t, ..., strictly increasing, up to the horizon:
\* horizon/delta_t + 1 samples when the horizon is a multiple of delta_t.
C16_HorizonCoverage ==
    (ret.kind = "prediction" /\ ~ret.raised) =>
        LET v == ret.value
            o == FootprintOf(heap, ret.self)
        IN /\ v[1] = <<IF has_geometry(heap, o) THEN get_geometry(heap, o) ELSE None, 0>>
           /\ \A i \in 1..Len(v) : v[i][2] = (i - 1) * ret.delta_t
           /\ ret.horizon % ret.delta_t = 0 =>
                 /\ Len(v) = ret.horizon \div ret.delta_t + 1
                 /\ v[Len(v)][2] = ret.horizon

\* C17: for an entity with a point or polygon footprint and any of yaw,
\* yaw rate, speed and length absent, prediction returns a sample sequence and
\* intersects_path_with returns an intersection or the no-intersection result;
\* neither raises.
C17_NeverRaises ==
    /\ (ret.kind = "prediction" /\ has_geometry(heap, FootprintOf(heap, ret.self)))
          => ~ret.raised
    /\ (/\ ret.kind = "intersects_path_with"
        /\ has_geometry(heap, FootprintOf(heap, ret.self))
        /\ has_geometry(heap, FootprintOf(heap, ret.other)))
          => ~ret.raised

-----------------------------------------------------------------------------
(* The directional predicates of Spatial_Object (specification SpecDir).    *)
(* Positions are centroids in whole metres; an object lies in one of the    *)
(* eight directions that are multiples of 45 degrees, and yaws are multiples *)
(* of 45 degrees, so that every angle is exact.  arg holds the two objects, *)
(* ret what each predicate returned for them: <<>> is None.                 *)

\* the variables of the scenario, which no pure function touches
NoScenario ==
    /\ heap = EmptyHeap
    /\ scenario = <<>>
    /\ scen_attrs = [set |-> FALSE, duration |-> 0, max_time |-> 0]
    /\ has_scenery = FALSE
    /\ next_sid = 0
    /\ pc = "idle"
    /\ sim = NoSim
    /\ calls = 0
    /\ st = NoStep
    /\ cache = NoCache

\* spatial_object.py line 11, in m
SPATIAL_PREDICATE_THRESHOLD == 50

\* the unit steps of the eight directions, counterclockwise from the x axis
Dir8 ==
    << <<1, 0>>, <<1, 1>>, <<0, 1>>, <<-1, 1>>, <<-1, 0>>, <<-1, -1>>, <<0, -1>>, <<1, -1>> >>

\* math.degrees(math.atan2(y, x)) of a vector in one of the eight directions
Atan2Deg(y, x) ==
    CASE y = 0 /\ x > 0 -> 0
      [] y > 0 /\ x = y -> 45
      [] y > 0 /\ x = 0 -> 90
      [] y > 0 /\ x = -y -> 135
      [] y = 0 /\ x < 0 -> 180
      [] y < 0 /\ x = y -> -135
      [] y < 0 /\ x = 0 -> -90
      [] y < 0 /\ x = -y -> -45

\* [math.cos(math.radians(has_yaw)), math.sin(math.radians(has_yaw))], scaled
\* to whole numbers: atan2 depends on the direction only
p_yaw(has_yaw) == Dir8[((has_yaw % 360) \div 45) + 1]

\* [p_1.x - p_2.x, p_1.y - p_2.y]
p_self(p_1, p_2) == <<p_1[1] - p_2[1], p_1[2] - p_2[2]>>

\* math.degrees(math.atan2(*p_yaw) - math.atan2(*p_self)) % 360
angle(p_1, p_2, has_yaw) ==
    (Atan2Deg(p_yaw(has_yaw)[1], p_yaw(has_yaw)[2])
       - Atan2Deg(p_self(p_1, p_2)[1], p_self(p_1, p_2)[2])) % 360

\* float(p_1.distance(p_2)) <= _SPATIAL_PREDICATE_THRESHOLD
WithinThreshold(p_1, p_2) ==
    (p_1[1] - p_2[1]) * (p_1[1] - p_2[1]) + (p_1[2] - p_2[2]) * (p_1[2] - p_2[2])
        <= SPATIAL_PREDICATE_THRESHOLD * SPATIAL_PREDICATE_THRESHOLD

\* the two conditions every directional predicate starts with
Directional(self, other) ==
    /\ self.id # other.id /\ self.centroid # <<>> /\ other.centroid # <<>>
    /\ other.has_yaw # <<>>
    /\ WithinThreshold(self.centroid[1], other.centroid[1])
    /\ self.centroid[1] # other.centroid[1]

\* Spatial_Object.behind
behind(self, other) ==
    IF Directional(self, other)
    THEN LET a == angle(self.centroid[1], other.centroid[1], other.has_yaw[1])
         IN <<90 < a /\ a < 270>>
    ELSE <<>>

\* Spatial_Object.left_of
left_of(self, other) ==
    IF Directional(self, other)
    THEN LET a == angle(self.centroid[1], other.centroid[1], other.has_yaw[1])
         IN <<0 < a /\ a < 180>>
    ELSE <<>>

\* right_of with a range that reaches into the left half-plane
right_of_Wide(self, other) ==
    IF Directional(self, other)
    THEN LET a == angle(self.centroid[1], other.centroid[1], other.has_yaw[1])
         IN <<90 < a /\ a < 360>>
    ELSE <<>>

\* Spatial_Object.right_of
right_of(self, other) ==
    IF Directional(self, other)
    THEN LET a == angle(self.centroid[1], other.centroid[1], other.has_yaw[1])
         IN <<180 < a /\ a < 360>>
    ELSE <<>>

\* utils.in_front_of(p_1, p_2, yaw) is called but not defined in the sources:
\* the other side of the 90/270 split of behind
utils_in_front_of(p_1, p_2, has_yaw) ==
    LET a == angle(p_1, p_2, has_yaw) IN a < 90 \/ a > 270

\* Spatial_Object.in_front_of
in_front_of(self, other) ==
    IF Directional(self, other)
    THEN <<utils_in_front_of(self.centroid[1], other.centroid[1], other.has_yaw[1])>>
    ELSE <<>>

Radii == {10, 30, 60}      \* distances along a direction, in m
Yaws == {0, 45, 90, 180, 270, 315}

\* the objects the predicates are asked about: the reference at the origin
DirSelves ==
    {[id |-> "ped", centroid |-> <<>>], [id |-> "ped", centroid |-> << <<0, 0>> >>],
     [id |-> "ego", centroid |-> << <<0, 0>> >>]}
    \cup {[id |-> "ped", centroid |-> << <<r * Dir8[d][1], r * Dir8[d][2]>> >>] :
             r \in Radii, d \in 1..8}

DirOthers ==
    {[id |-> "ego", centroid |-> << <<0, 0>> >>, has_yaw |-> <<>>],
     [id |-> "ego", centroid |-> <<>>, has_yaw |-> <<0>>]}
    \cup {[id |-> "ego", centroid |-> << <<0, 0>> >>, has_yaw |-> <<y>>] : y \in Yaws}

DirectionalPredicates == {"in_front_of", "behind", "left_of", "right_of"}

InitDir ==
    /\ NoScenario
    /\ \E self \in DirSelves, other \in DirOthers :
          arg = [kind |-> "directional", self |-> self, other |-> other]
    /\ ret = [kind |-> "directional", called |-> {}, in_front_of |-> <<>>, behind |-> <<>>,
              left_of |-> <<>>, right_of |-> <<>>]

\* a call self.in_front_of(other)
InFrontOf ==
    /\ "in_front_of" \notin ret.called
    /\ ret' = [ret EXCEPT !.called = @ \cup {"in_front_of"},
                          !.in_front_of = in_front_of(arg.self, arg.other)]
    /\ UNCHANGED <<heap, scenario, scen_attrs, has_scenery, next_sid, pc, sim, calls, st, cache, arg>>

\* a call self.behind(other)
Behind ==
    /\ "behind" \notin ret.called
    /\ ret' = [ret EXCEPT !.called = @ \cup {"behind"},
                          !.behind = behind(arg.self, arg.other)]
    /\ UNCHANGED <<heap, scenario, scen_attrs, has_scenery, next_sid, pc, sim, calls, st, cache, arg>>

\* a call self.left_of(other)
LeftOf ==
    /\ "left_of" \notin ret.called
    /\ ret' = [ret EXCEPT !.called = @ \cup {"left_of"},
                          !.left_of = left_of(arg.self, arg.other)]
    /\ UNCHANGED <<heap, scenario, scen_attrs, has_scenery, next_sid, pc, sim, calls, st, cache, arg>>

\* a call self.right_of(other)
RightOf ==
    /\ "right_of" \notin ret.called
    /\ ret' = [ret EXCEPT !.called = @ \cup {"right_of"},
                          !.right_of = right_of(arg.self, arg.other)]
    /\ UNCHANGED <<heap, scenario, scen_attrs, has_scenery, next_sid, pc, sim, calls, st, cache, arg>>

NextDir == InFrontOf \/ Behind \/ LeftOf \/ RightOf

SpecDir == InitDir /\ [][NextDir]_vars

\* a predicate returned True
Holds(v) == v = <<TRUE>>

\* all four predicates were asked about distinct objects with geometry and
\* different centroids, the reference having a yaw
AllAsked ==
    /\ ret.kind = "directional" /\ ret.called = DirectionalPredicates
    /\ arg.self.id # arg.other.id
    /\ arg.self.centroid # <<>> /\ arg.other.centroid # <<>> /\ arg.other.has_yaw # <<>>
    /\ arg.self.centroid # arg.other.centroid

\* the heading of the reference times the vector from the reference to the
\* object: the scalar product, positive ahead, and the cross product, positive
\* to the left
Ahead == LET h == p_yaw(arg.other.has_yaw[1])
             v == <<arg.self.centroid[1][1] - arg.other.centroid[1][1],
                    arg.self.centroid[1][2] - arg.other.centroid[1][2]>>
         IN h[1] * v[1] + h[2] * v[2]

Leftward == LET h == p_yaw(arg.other.has_yaw[1])
                v == <<arg.self.centroid[1][1] - arg.other.centroid[1][1],
                       arg.self.centroid[1][2] - arg.other.centroid[1][2]>>
            IN h[1] * v[2] - h[2] * v[1]

-----------------------------------------------------------------------------
(* get_occlusions of the observer (specification SpecOcc).  Footprints, the *)
(* occluded areas (cutoffs) and the field of view are intervals <<lo, hi>>  *)
(* of whole metres on one axis, the area of a geometry is its length, and a *)
(* percentage is kept in hundredths.  arg holds the arguments of the call,  *)
(* ret the list it returned.                                                *)

MaxCoord == 6
Coords == {0, 1, 3, MaxCoord}
Intervals == {iv \in Coords \X Coords : iv[1] <= iv[2]}

\* geom.intersection(other) of two intervals; empty when lo >= hi
Intersection(p, q) == <<Max2(p[1], q[1]), Min2(p[2], q[2])>>

\* the area of the union of a set of intervals
UnionArea(S) ==
    Cardinality({k \in 0..(MaxCoord - 1) : \E iv \in S : iv[1] <= k /\ k < iv[2]})

\* line 100 without the limit of 1.0
percentage_Unclamped(union_area, fov_intersection) ==
    (100 * union_area) \div fov_intersection

\* line 100: min(int((union.area / fov_intersection) * 100) / 100, 1.0)
percentage(union_area, fov_intersection) ==
    Min2((100 * union_area) \div fov_intersection, 100)

\* the keys of cutoffs in the order of the dictionary
CutoffKeys(cutoffs) == SelectSeq(<<"a", "b", "c">>, LAMBDA a : a \in DOMAIN cutoffs)

\* lines 92-98: the occluders of others[i] with the parts of geom they hide
ints(others, i, geo, cutoffs) ==
    SelectSeq(CutoffKeys(cutoffs),
              LAMBDA a : /\ a # others[i]
                         /\ UnionArea({Intersection(geo[others[i]], cutoffs[a])}) > 0)

\* get_occlusions, lines 89-103: the entries of others[i..]
RECURSIVE occs_from(_, _, _, _, _)
occs_from(others, i, geo, cutoffs, fov) ==
    IF i > Len(others) THEN <<>>
    ELSE LET geom == geo[others[i]]
             fov_intersection == UnionArea({Intersection(geom, fov)})
             js == ints(others, i, geo, cutoffs)
             union == {Intersection(geom, cutoffs[js[j]]) : j \in 1..Len(js)}
             rest == occs_from(others, i + 1, geo, cutoffs, fov)
         IN IF fov_intersection > 0 /\ Len(js) > 0
            THEN << <<js, others[i], percentage(UnionArea(union), fov_intersection)>> >> \o rest
            ELSE rest

\* get_occlusions(others, cutoffs, fov)
get_occlusions(others, geo, cutoffs, fov) == occs_from(others, 1, geo, cutoffs, fov)

\* the occluded areas a caller passes: one per occluder, or none for it
CutoffChoices == {<<>>} \cup {<<iv>> : iv \in Intervals}
Cutoffs(ca, cb, cc) ==
    [x \in {y \in {"a", "b", "c"} :
               (y = "a" /\ ca # <<>>) \/ (y = "b" /\ cb # <<>>) \/ (y = "c" /\ cc # <<>>)} |->
        CASE x = "a" -> ca[1] [] x = "b" -> cb[1] [] x = "c" -> cc[1]]

InitOcc ==
    /\ NoScenario
    /\ \E ga \in Intervals, gb \in {<<0, 1>>, <<3, 3>>, <<3, MaxCoord>>},
          ca \in {<<>>, << <<0, MaxCoord>> >>}, cb \in CutoffChoices, cc \in CutoffChoices,
          fov \in {<<1, 3>>, <<0, MaxCoord>>} :
          arg = [kind |-> "get_occlusions", others |-> <<"a", "b">>,
                 geo |-> [x \in {"a", "b"} |-> IF x = "a" THEN ga ELSE gb],
                 cutoffs |-> Cutoffs(ca, cb, cc), fov |-> fov]
    /\ ret = NoRet

\* a call get_occlusions(others, cutoffs, fov)
GetOcclusions ==
    /\ ret = NoRet
    /\ ret' = [kind |-> "get_occlusions",
               value |-> get_occlusions(arg.others, arg.geo, arg.cutoffs, arg.fov)]
    /\ UNCHANGED <<heap, scenario, scen_attrs, has_scenery, next_sid, pc, sim, calls, st, cache, arg>>

NextOcc == GetOcclusions

SpecOcc == InitOcc /\ [][NextOcc]_vars

\* C19: every percentage computed by get_occlusions lies in [0, 1], and an
\* entity whose footprint has no area inside the viewer's field of view
\* produces no occlusion entry.
C19_OcclusionBound ==
    ret.kind = "get_occlusions" =>
        /\ \A j \in 1..Len(ret.value) : 0 <= ret.value[j][3] /\ ret.value[j][3] <= 100
        /\ \A i \in 1..Len(arg.others) :
              UnionArea({Intersection(arg.geo[arg.others[i]], arg.fov)}) = 0 =>
                  \A j \in 1..Len(ret.value) : ret.value[j][2] # arg.others[i]

\* the hidden part of "a" is larger than its part inside the field of view and
\* its entry says 1.0, and "b", hidden by a cutoff, has no area inside the
\* field of view and no entry
C19_Witness ==
    /\ ret.kind = "get_occlusions"
    /\ \E j \in 1..Len(ret.value) :
          /\ ret.value[j][2] = "a" /\ ret.value[j][3] = 100
          /\ UnionArea({Intersection(arg.geo["a"], arg.cutoffs[x]) : x \in DOMAIN arg.cutoffs \ {"a"}})
                > UnionArea({Intersection(arg.geo["a"], arg.fov)})
    /\ UnionArea({Intersection(arg.geo["b"], arg.fov)}) = 0
    /\ \E x \in DOMAIN arg.cutoffs \ {"b"} :
          UnionArea({Intersection(arg.geo["b"], arg.cutoffs[x])}) > 0
    /\ \A j \in 1..Len(ret.value) : ret.value[j][2] # "b"

-----------------------------------------------------------------------------
(* split_polygon_into_boundaries (specification SpecSplit).  A polygon is   *)
(* the sequence of the points of its boundary without the closing one, a    *)
(* point being a number; a boundary is the sequence of its points.          *)

MaxPoints == 6
Points == 1..MaxPoints

\* the boundaries of the polygons passed in: three or more different points
Boundaries ==
    UNION {{c \in [1..n -> Points] : \A i \in 1..n : \A j \in 1..n : c[i] = c[j] => i = j} :
              n \in 3..MaxPoints}

\* lines 21-24 with the odd case rounded down
half_Floor(n) == n \div 2

\* lines 21-24: half
half(n) == IF n % 2 = 0 THEN n \div 2 ELSE (n + 1) \div 2

\* reversed(s)
Reversed(s) == [i \in 1..Len(s) |-> s[Len(s) + 1 - i]]

\* split_polygon_into_boundaries(p), coords being p.boundary.coords[:-1]; the
\* assert of line 20 raises
split_polygon_into_boundaries(coords) ==
    IF ~(Len(coords) >= 4) THEN [raised |-> TRUE, value |-> <<>>]
    ELSE LET h == half(Len(coords))
             right_coords == SubSeq(coords, 1, h)
             front_coords == <<coords[h], coords[h + 1]>>
             left_coords == Reversed(SubSeq(coords, h + 1, Len(coords)))
             back_coords == <<coords[1], coords[Len(coords)]>>
         IN [raised |-> FALSE,
             value |-> <<left_coords, right_coords, front_coords, back_coords>>]

InitSplit ==
    /\ NoScenario
    /\ \E coords \in Boundaries : arg = [kind |-> "split", coords |-> coords]
    /\ ret = NoRet

\* a call split_polygon_into_boundaries(p)
SplitPolygonIntoBoundaries ==
    /\ ret = NoRet
    /\ \E r \in {split_polygon_into_boundaries(arg.coords)} :
          ret' = [kind |-> "split", raised |-> r.raised, value |-> r.value]
    /\ UNCHANGED <<heap, scenario, scen_attrs, has_scenery, next_sid, pc, sim, calls, st, cache, arg>>

NextSplit == SplitPolygonIntoBoundaries

SpecSplit == InitSplit /\ [][NextSplit]_vars

-----------------------------------------------------------------------------
(* Further properties of the scene stepper (specification SpecStep) *)

\* the counterpart in the new scene of a value of the source scene: an entity
\* is replaced by the entity the mapping gives or, for an entity that was in the
\* new scene from the start, by the one of the same identifier
Counterpart(v) ==
    IF IsRef(v) /\ v[2] = st.src.sid
    THEN Ref(Obj(st.new.sid, IF MapHas(st.mapping, Iri(ObjOf(v)))
                             THEN MapGet(st.mapping, Iri(ObjOf(v)))
                             ELSE Iri(ObjOf(v))))
    ELSE v

\* C21: stepping a scene with delta_t = 0 in which every entity uses the default
\* update rule yields a scene with the same timestamp in which every entity has
\* exactly the attribute values of its source entity, entity-typed values
\* replaced by their counterparts; nothing the copy phase set is overwritten or
\* duplicated, so no attribute holds more values than in the source.
C21_CopyIdempotence ==
    (st.pc = "done" /\ st.delta_t.val = 0 /\ ~st.src.more_extras) =>
       /\ st.new.timestamp = st.src.timestamp
       /\ \A i \in 1..Len(st.mapping), var \in PropNames :
             heap[NewObj(i)].p[var] =
                [n \in 1..Len(heap[SrcObj(i)].p[var]) |-> Counterpart(heap[SrcObj(i)].p[var][n])]

\* the update rule of the entity st.inds[st.k] raised and the exception left
\* Scene.simulate: the rules of the entities after it did not run and no scene
\* was returned
RuleFailed == st.pc = "raised" /\ st.k >= 1

\* C22: when the update rule of one entity fails during Scene.simulate, the
\* update rules of all other entities of that step still run and the new scene
\* is produced from the entities that succeeded: the failure of a rule never ends
\* the step.
C22_FailureIsolation == ~RuleFailed

-----------------------------------------------------------------------------
(* Further properties of the scenario sequencer (specification Spec) *)

\* C29: if a per-entity update rule raises during a step inside
\* Scenario.simulate, the scenario is left exactly as after the last completed
\* step: the step in which the call ends with the exception appends no scene and
\* changes neither the scene list nor the duration nor the maximum time.
C29_FailedStepLeavesScenario ==
    [][(pc = "loop" /\ ret'.kind = "raised") =>
          /\ scenario' = scenario
          /\ scen_attrs' = scen_attrs
          /\ Len(scenario') = sim.len0 + sim.i]_vars

\* a call on a scenario with a scene has ended with the exception of a rule
C29_Witness ==
    /\ pc = "idle" /\ ret.kind = "raised"
    /\ Len(scenario) >= 1
    /\ \E o \in DOMAIN heap :
          /\ o[1] = Last(scenario).sid
          /\ IsInstance(heap[o], Passenger_Car)
          /\ get_speed(heap, o) = <<>>

-----------------------------------------------------------------------------
(* Further properties of the predictor and the oracle (specification SpecPred) *)

\* the pairs of positions of two predictions whose footprints overlap with positive area
Overlapping(pred_1, pred_2) ==
    {ij \in (1..Len(pred_1)) \X (1..Len(pred_2)) :
        OverlapArea(pred_1[ij[1]][1], pred_2[ij[2]][1]) > 0}

\* ij is found before kl when the samples of the first entity are scanned in
\* increasing time and, for each, the samples of the second in increasing time
ScannedBefore(ij, kl) == ij[1] < kl[1] \/ (ij[1] = kl[1] /\ ij[2] <= kl[2])

\* the two sample sequences a query of two dynamical objects has worked on
SamplesOf(c, r) ==
    <<c.pred[<<r.self, r.delta_t, r.horizon>>], c.pred[<<r.other, r.delta_t, r.horizon>>]>>

\* C23: when intersects_path_with computes an intersection (the pair was not
\* held in the oracle's dictionary before the call), the returned (t1, t2) are
\* the times of a pair of sampled footprints that overlap with positive area,
\* no overlapping pair has a smaller t1 + t2, and among the overlapping pairs
\* with the same t1 + t2 the returned one is the first in scan order.
C23_SoonestIntersection ==
    [][(/\ ret'.kind = "intersects_path_with" /\ ~ret'.raised /\ ret'.value # None3
        /\ IsInstance(heap[ret'.other], Dynamical_Object)
        /\ <<ret'.self, ret'.other>> \notin DOMAIN cache.ipw) =>
          LET s == SamplesOf(cache', ret')
              sum(ij) == s[1][ij[1]][2] + s[2][ij[2]][2]
          IN \E ij \in Overlapping(s[1], s[2]) :
                /\ ret'.value[1] = <<s[1][ij[1]][2]>>
                /\ ret'.value[2] = <<s[2][ij[2]][2]>>
                /\ \A kl \in Overlapping(s[1], s[2]) :
                      sum(ij) < sum(kl) \/ (sum(ij) = sum(kl) /\ ScannedBefore(ij, kl))]_vars

\* an intersection was computed where another pair of samples overlaps at the
\* same t1 + t2: the one found later in the scan
C23_Witness ==
    /\ ret.kind = "intersects_path_with" /\ ~ret.raised /\ ret.value # None3
    /\ Dynamical(ret.other) /\ calls = 1
    /\ LET s == SamplesOf(cache, ret)
           sum(ij) == s[1][ij[1]][2] + s[2][ij[2]][2]
       IN \E ij \in Overlapping(s[1], s[2]) :
             /\ sum(ij) = ret.value[1][1] + ret.value[2][1]
             /\ <<s[1][ij[1]][2]>> # ret.value[1]

\* C27: intersects_path_with(other, delta_t, horizon) returns the result for
\* the delta_t and the horizon of this call, also right after a call on the same
\* pair of entities, in either order, with another horizon.
C27_ResultDependsOnParameters ==
    [][(/\ ret.kind = "intersects_path_with" /\ ret'.kind = "intersects_path_with"
        /\ {ret'.self, ret'.other} = {ret.self, ret.other}
        /\ <<ret'.delta_t, ret'.horizon>> # <<ret.delta_t, ret.horizon>>) =>
          LET r == intersects_path_with(NoCache, heap', ret'.self, ret'.other,
                                        ret'.delta_t, ret'.horizon)
          IN ret'.raised = r.raised /\ (~r.raised => ret'.value = r.value)]_vars

\* C28: when the other entity is a static spatial object whose footprint
\* overlaps no predicted footprint of the querying entity, intersects_path_with
\* reports no intersection.
C28_StaticFootprint ==
    (/\ ret.kind = "intersects_path_with" /\ ~ret.raised /\ ~Dynamical(ret.other)
     /\ has_geometry(heap, ret.self) /\ has_geometry(heap, ret.other)
     /\ LET p == prediction_body(NoCache, heap, ret.self, ret.delta_t, ret.horizon)
        IN /\ ~p.raised
           /\ \A i \in 1..Len(p.value) :
                 ~Intersects(p.value[i][1], get_geometry(heap, ret.other)))
    => ret.value = None3

\* C25: the prediction of an entity that drives another entity is the
\* prediction of the driven entity: footprint, yaw, yaw rate and speed are all
\* read from the vehicle, also when the driver's own attributes differ.
C25_DriverPredictsVehicle ==
    (ret.kind = "prediction" /\ Len(heap[ret.self].p["drives"]) > 0) =>
        LET r == prediction_body(NoCache, heap, FootprintOf(heap, ret.self),
                                 ret.delta_t, ret.horizon)
        IN ret.raised = r.raised /\ (~r.raised => ret.value = r.value)

-----------------------------------------------------------------------------
(* Properties of the intersecting-path augmentation (specification SpecAug) *)

\* what self.intersects_path_with(other) returns when called with its defaults
\* in the state a call of the augmentation starts in
Oracle(self, other) ==
    intersects_path_with(cache, heap, self, other, DefaultDeltaT, DefaultHorizon)

\* the times of an oracle result are closer than the two thresholds
Critical(v) ==
    /\ v # None3
    /\ v[1][1] + v[2][1] < INTERSECTING_PATH_THRESHOLD
    /\ Abs(v[1][1] - v[2][1]) < INTERSECTING_PATH_MAX_PET

Asked(a, b) ==
    /\ a # b
    /\ DrivesCondition(heap, a, b)
    /\ has_geometry(heap, a) /\ has_geometry(heap, b)
    /\ get_speed(heap, a) \notin {<<>>, <<Lit(0)>>}

PositiveSpeed(o) == get_speed(heap, o) # <<>> /\ get_speed(heap, o)[1][2] > 0

\* C30: augment_intersecting_paths(a, b) returns true only if a and b are
\* distinct, both have a geometry, both have a speed that is present and
\* greater than 0, and neither drives the other.
C30_TrueOnlyForMovingPairs ==
    (ret.kind = "augment_intersecting_paths" /\ ret.value = "True") =>
        /\ ret.self # ret.other
        /\ has_geometry(heap, ret.self) /\ has_geometry(heap, ret.other)
        /\ PositiveSpeed(ret.self) /\ PositiveSpeed(ret.other)
        /\ Ref(ret.other) \notin Range(heap[ret.self].p["drives"])
        /\ Ref(ret.self) \notin Range(heap[ret.other].p["drives"])

-----------------------------------------------------------------------------
(* Observer.augment_occlusion (specification SpecObs).  The individuals of   *)
(* the world are the observer "v" and "a", "b", "c"; footprints and the field *)
(* of view are intervals as above, heights are in centimetres.  arg holds the *)
(* attributes of the individuals, ret the Is_Occlusion records the call made. *)

DEFAULT_VISIBILITY == 50        \* _DEFAULT_VISIBILITY, in metres

Individuals == <<"v", "a", "b", "c">>

\* other_geom.intersects(fov), other_geom.within(self_geom) for intervals
IvIntersects(p, q) == p[1] <= q[2] /\ q[1] <= p[2]
IvWithin(p, q) == q[1] <= p[1] /\ p[2] <= q[2]

\* Observer.is_in_fov without the test of the height
is_in_fov_AnyHeight(a, self, other, fov, ignore_height) ==
    /\ self # other /\ a.geo[other] # <<>>
    /\ IvIntersects(a.geo[other][1], fov)
    /\ (ignore_height \/ ~(\/ IvWithin(a.geo[self][1], a.geo[other][1])
                           \/ IvWithin(a.geo[other][1], a.geo[self][1])
                           \/ a.geo[other][1] = a.geo[self][1]))

\* Observer.is_in_fov; None counts as false
is_in_fov(a, self, other, fov, ignore_height) ==
    /\ self # other /\ a.geo[other] # <<>>
    /\ ((a.height[other] # <<>> /\ a.height[other][1] > 10) \/ ignore_height)
    /\ IvIntersects(a.geo[other][1], fov)
    /\ (ignore_height \/ ~(\/ IvWithin(a.geo[self][1], a.geo[other][1])
                           \/ IvWithin(a.geo[other][1], a.geo[self][1])
                           \/ a.geo[other][1] = a.geo[self][1]))

\* get_occluded_areas on one axis: the part of each occluder inside the field
\* of view joined with what lies behind it as seen from the centre of the
\* field of view, up to the visibility; all of the field of view when the
\* occluder lies on both sides of the centre
get_occluded_areas(others, geo, fov) ==
    LET centre == (fov[1] + fov[2]) \div 2
        cutoff(x) == LET part == Intersection(geo[x], fov)
                     IN IF part[1] >= centre THEN <<part[1], fov[2]>>
                        ELSE IF part[2] < centre THEN <<fov[1], part[2]>>
                        ELSE fov
    IN [x \in Range(others) |-> cutoff(x)]

\* lines 160-167: the records made for the occlusions above 20 percent
OcclusionRecords(self, occlusions) ==
    LET above == SelectSeq(occlusions, LAMBDA occ : occ[3] > 20)
    IN [k \in 1..Len(above) |->
          [is_occluded_for |-> self, is_occluded_by |-> above[k][1],
           is_occluded |-> above[k][2], has_occlusion_rate |-> above[k][3]]]

\* Observer.augment_occlusion for an observer that drives nothing
augment_occlusion(a, self) ==
    IF a.geo[self] # <<>> /\ a.has_yaw /\ ~a.is_occluded_for_in_occlusion
    THEN LET self_geom == a.geo[self][1]
             head == (self_geom[1] + self_geom[2]) \div 2
             visibility == IF a.has_visibility_range = <<>> \/ a.has_visibility_range = <<0>>
                           THEN DEFAULT_VISIBILITY ELSE a.has_visibility_range[1]
             fov == <<head - visibility, head + visibility>>
             occluding_others == SelectSeq(Individuals,
                                           LAMBDA x : is_in_fov(a, self, x, fov, FALSE))
             occluded_others == SelectSeq(Individuals,
                                          LAMBDA x : is_in_fov(a, self, x, fov, TRUE))
             geo == [x \in Range(Individuals) |->
                        IF a.geo[x] = <<>> THEN <<0, 0>> ELSE a.geo[x][1]]
             occluded_areas == get_occluded_areas(occluding_others, geo, fov)
         IN OcclusionRecords(self, get_occlusions(occluded_others, geo, occluded_areas, fov))
    ELSE <<>>

ObserverFootprints == {<<3, 3>>, <<1, 3>>, <<0, 1>>}
ObservedHeights == {<<>>, <<10>>, <<200>>}

InitObs ==
    /\ NoScenario
    /\ \E gv \in ObserverFootprints, ga \in Intervals,
          gb \in {<<0, 1>>, <<3, 3>>, <<3, MaxCoord>>, <<5, 6>>}, gc \in {<<>>, << <<0, 1>> >>},
          ha \in ObservedHeights, hb \in ObservedHeights, vis \in {<<>>, <<2>>},
          has_yaw \in BOOLEAN, again \in BOOLEAN :
          arg = [kind |-> "augment_occlusion",
                 geo |-> [x \in Range(Individuals) |->
                            CASE x = "v" -> <<gv>> [] x = "a" -> <<ga>>
                              [] x = "b" -> <<gb>> [] x = "c" -> gc],
                 height |-> [x \in Range(Individuals) |->
                               CASE x = "v" -> <<200>> [] x = "a" -> ha
                                 [] x = "b" -> hb [] x = "c" -> <<200>>],
                 has_visibility_range |-> vis, has_yaw |-> has_yaw,
                 is_occluded_for_in_occlusion |-> again]
    /\ ret = NoRet

\* a call v.augment_occlusion()
AugmentOcclusion ==
    /\ ret = NoRet
    /\ ret' = [kind |-> "augment_occlusion", value |-> augment_occlusion(arg, "v")]
    /\ UNCHANGED <<heap, scenario, scen_attrs, has_scenery, next_sid, pc, sim, calls, st, cache, arg>>

NextObs == AugmentOcclusion

SpecObs == InitObs /\ [][NextObs]_vars

\* C26: augment_occlusion makes an occlusion record only with an occlusion
\* percentage strictly above 0.2, and in every record the occluders contain
\* neither the occluded entity nor the viewer, and every occluder has a height
\* above 0.1 m.
C26_OcclusionRecords ==
    ret.kind = "augment_occlusion" =>
        \A k \in 1..Len(ret.value) :
            LET rec == ret.value[k]
            IN /\ rec.has_occlusion_rate > 20
               /\ rec.is_occluded \notin Range(rec.is_occluded_by)
               /\ "v" \notin Range(rec.is_occluded_by)
               /\ \A o \in Range(rec.is_occluded_by) :
                     arg.height[o] # <<>> /\ arg.height[o][1] > 10

\* "b" hides exactly 0.2 of "a" and no record is made for "a", while a record
\* is made for "b", hidden by "a"
C26_Witness ==
    /\ ret.kind = "augment_occlusion"
    /\ arg.geo["a"] = << <<1, 6>> >> /\ arg.geo["b"] = << <<5, 6>> >>
    /\ arg.height["a"] = <<200>> /\ arg.height["b"] = <<200>>
    /\ arg.has_visibility_range = <<>>
    /\ \A k \in 1..Len(ret.value) : ret.value[k].is_occluded # "a"
    /\ \E k \in 1..Len(ret.value) :
          ret.value[k].is_occluded = "b" /\ ret.value[k].is_occluded_by = <<"a">>

====
